---- MODULE Spec2Model ----
(***************************************************************************)
(* Versioned content store and composition resolver of resume-backend.     *)
(*                                                                         *)
(* Python strings are modelled as sequences of one-character strings, so   *)
(* that str.split, int() and the f-string formatting of version labels and *)
(* section references are computed, not assumed.  A dict is a set of       *)
(* <<key, value>> pairs whose values are sequences of strings; an          *)
(* Optional[x] is a set with at most one element (None is {}).             *)
(***************************************************************************)
EXTENDS Integers, Sequences, FiniteSets, TLC

\* ------------------------------------------------------------------ bounds
\* number of committed mutating transactions in a run of Spec
MaxClock == 4
\* number of committed mutating transactions in a run of SpecRead
MaxClockRead == 1
\* number of committed mutating transactions in a run of SpecLong
MaxClockLong == 12
\* longest list of references in one slot of a resume_config
MaxRefs == 2
\* longest list of items in one bulk creation request
MaxItems == 2
\* longest text given to escape_latex and process_bullet
MaxLen == 4

\* ------------------------------------------------------- python primitives
None == {}

Some(x) == {x}

\* the value inside a non-None Optional
The(opt) == CHOOSE x \in opt : TRUE

Digits == <<"0", "1", "2", "3", "4", "5", "6", "7", "8", "9">>

DigitVal(ch) == (CHOOSE i \in 1..10 : Digits[i] = ch) - 1

IsDigit(ch) == \E i \in 1..10 : Digits[i] = ch

\* str.split(sep): the pieces between the occurrences of sep
RECURSIVE split(_, _)
split(s, sep) ==
    IF \A i \in 1..Len(s) : s[i] /= sep
    THEN <<s>>
    ELSE LET i == CHOOSE i \in 1..Len(s) :
                      s[i] = sep /\ \A j \in 1..(i - 1) : s[j] /= sep
         IN  <<SubSeq(s, 1, i - 1)>> \o split(SubSeq(s, i + 1, Len(s)), sep)

\* int(s) is defined on non-empty digit strings and raises otherwise
IsInt(s) == Len(s) > 0 /\ \A i \in 1..Len(s) : IsDigit(s[i])

RECURSIVE int(_)
int(s) ==
    IF Len(s) = 0 THEN 0
    ELSE 10 * int(SubSeq(s, 1, Len(s) - 1)) + DigitVal(s[Len(s)])

\* the decimal rendering an f-string gives an int
RECURSIVE str(_)
str(n) ==
    IF n < 10 THEN <<Digits[n + 1]>>
    ELSE str(n \div 10) \o <<Digits[(n % 10) + 1]>>

ValueError == <<"V", "a", "l", "u", "e", "E", "r", "r", "o", "r">>

get_next_version_carry(current_version) ==
    LET parts == split(current_version, ".")
    IN  IF Len(parts) /= 2 \/ ~IsInt(parts[2]) \/ ~IsInt(parts[1])
        THEN ValueError
        ELSE IF int(parts[2]) = 9
             THEN str(int(parts[1]) + 1) \o <<".", "0">>
             ELSE parts[1] \o <<".">> \o str(int(parts[2]) + 1)

\* 1.0 -> 1.1, 1.9 -> 1.10
get_next_version(current_version) ==
    LET parts == split(current_version, ".")
    IN  IF Len(parts) /= 2 \/ ~IsInt(parts[2])
        THEN ValueError
        ELSE parts[1] \o <<".">> \o str(int(parts[2]) + 1)

\* ------------------------------------------------------------------ inputs
Users == {"u1", "u2"}

Experience == "experience"
Project == "project"

KeyA == <<"a">>
FlavorS == <<"s">>
FlavorT == <<"t">>

V10 == <<"1", ".", "0">>

\* chain addresses the requests use: (user_id, type, key, flavor)
Chains ==
    { <<"u1", Experience, KeyA, FlavorS>>,
      <<"u1", Experience, KeyA, FlavorT>>,
      <<"u2", Experience, KeyA, FlavorS>>,
      <<"u1", Project, KeyA, FlavorS>> }

\* the chains the requests of Spec address
StoreChains ==
    { <<"u1", Experience, KeyA, FlavorS>>,
      <<"u1", Experience, KeyA, FlavorT>>,
      <<"u2", Experience, KeyA, FlavorS>> }

LongChain == <<"u1", Experience, KeyA, FlavorS>>

\* request payloads: the empty dict and dicts with one field
EmptyDict == {}
TitleDict == { <<"title", <<"A">>>> }
OtherDict == { <<"title", <<"B">>>> }
Payloads == {EmptyDict, TitleDict}

\* the payloads each user sends in SpecRead: no payload is sent by both
PayloadsOf(user_id) == IF user_id = "u1" THEN {EmptyDict, TitleDict} ELSE {OtherDict}

\* section references: key:flavor:version, key:flavor, key, a key that was
\* never stored, a reference of four segments
RefKFV == <<"a", ":", "s", ":", "1", ".", "0">>
RefKF == <<"a", ":", "s">>
RefK == <<"a">>
RefMissing == <<"b">>
RefFour == <<"a", ":", "s", ":", "1", ".", "0", ":", "x">>
RefPool == {RefKFV, RefKF, RefK, RefMissing}

\* the X-Gemini-API-Key header, absent or present
ApiKeys == {None, Some("k")}

\* outcomes of the AI tag call: tags returned, a failure caught inside
\* generate_section_tags, an exception raised out of it
AiOutcomes == {"tags", "caught", "raise"}

\* ----------------------------------------------------------------- state
VARIABLES
    sections,    \* rows of the sections table
    nextId,      \* source of fresh primary keys (uuid4)
    now,         \* the database clock, func.now()
    response,    \* the response of the last request
    history,     \* per chain: highest minor ever issued, updates since put
    txn,         \* the transactions of the concurrent requests
    fs,          \* the scratch directories under the temporary directory
    req,         \* the generate requests in flight
    section_configs,  \* rows of the section_configs table
    applications,     \* rows of the applications table
    scan         \* the call of a text function in progress

vars == <<sections, nextId, now, response, history, txn,
          fs, req, section_configs, applications, scan>>

\* what the requests of the sections router never touch
pipeline == <<fs, req, section_configs, applications, scan>>

ChainOf(r) == <<r.user_id, r.type, r.key, r.flavor>>

\* dict[k] = v
DictSet(d, k, v) == {p \in d : p[1] /= k} \cup {<<k, v>>}

\* ---------------------------------------------------------- the AI tag call
\* generate_section_tags: the tags of the model's answer, [] when the call
\* fails inside its try block, an exception when it fails before it
generate_section_tags(ai) ==
    IF ai = "tags" THEN [raised |-> FALSE, tags |-> <<"x">>]
    ELSE IF ai = "caught" THEN [raised |-> FALSE, tags |-> <<>>]
    ELSE [raised |-> TRUE, tags |-> <<>>]

generate_tags_for_content_no_fallback(api_key, content, ai) ==
    IF api_key = None THEN content
    ELSE LET res == generate_section_tags(ai)
         IN  IF res.raised
             THEN content
             ELSE DictSet(content, "tags", res.tags)

\* generate_tags_for_content: the content as sent when no API key came with
\* the request, else the content with its "tags" entry set, to [] when
\* generate_section_tags raised
generate_tags_for_content(api_key, content, ai) ==
    IF api_key = None THEN content
    ELSE LET res == generate_section_tags(ai)
         IN  IF res.raised
             THEN DictSet(content, "tags", <<>>)
             ELSE DictSet(content, "tags", res.tags)

\* --------------------------------------------------------------- the table
Section(id, user_id, type, key, flavor, version, content, is_current, ts) ==
    [ id |-> id, user_id |-> user_id, type |-> type, key |-> key,
      flavor |-> flavor, version |-> version, content |-> content,
      is_current |-> is_current, created_at |-> ts, updated_at |-> ts ]

uq_section_version_off(db) == TRUE

\* UniqueConstraint("user_id", "type", "key", "flavor", "version")
uq_section_version(db) ==
    \A r1 \in db : \A r2 \in db :
        (ChainOf(r1) = ChainOf(r2) /\ r1.version = r2.version) => r1.id = r2.id

\* Query.first(): any row of the result, None on an empty result
first(rows) == IF rows = {} THEN {None} ELSE {Some(r) : r \in rows}

first_unordered(rows) == first(rows)

\* order_by(created_at.desc()).first()
first_created_desc(rows) ==
    first({r \in rows : \A q \in rows : q.created_at <= r.created_at})

\* the lists order_by(created_at.desc()).all() can return
RECURSIVE all_created_desc(_)
all_created_desc(rows) ==
    IF rows = {} THEN {<<>>}
    ELSE UNION { { <<r>> \o rest : rest \in all_created_desc(rows \ {r}) } :
                 r \in {x \in rows : \A q \in rows : q.created_at <= x.created_at} }

get_all_sections(db, user_id) == {r \in db : r.user_id = user_id}

get_sections_by_type(db, user_id, type) ==
    {r \in db : r.user_id = user_id /\ r.type = type}

get_section_versions(db, user_id, type, key, flavor) ==
    {r \in db : r.user_id = user_id /\ r.type = type
                /\ r.key = key /\ r.flavor = flavor}

get_section_by_version(db, user_id, type, key, flavor, version) ==
    {r \in db : r.user_id = user_id /\ r.type = type /\ r.key = key
                /\ r.flavor = flavor /\ r.version = version}

get_current_section(db, user_id, type, key, flavor) ==
    {r \in db : r.user_id = user_id /\ r.type = type /\ r.key = key
                /\ r.flavor = flavor /\ r.is_current = TRUE}

create_section_not_current(db, id, ts, user_id, type, key, flavor, content) ==
    db \cup {Section(id, user_id, type, key, flavor, V10, content, FALSE, ts)}

\* section_service.create_section: the table after the INSERT
create_section(db, id, ts, user_id, type, key, flavor, content) ==
    db \cup {Section(id, user_id, type, key, flavor, V10, content, TRUE, ts)}

update_section_keep_flag(db, id, ts, current, content) ==
    db \cup { Section(id, current.user_id, current.type, current.key,
                      current.flavor, get_next_version(current.version),
                      content, TRUE, ts) }

update_section_in_place(db, id, ts, current, content) ==
    { IF r.id = current.id
      THEN [r EXCEPT !.content = content, !.updated_at = ts]
      ELSE r : r \in db }

\* section_service.update_section after a current block was found: the
\* table after the UPDATE of the old row (by primary key) and the INSERT
update_section(db, id, ts, current, content) ==
    { IF r.id = current.id
      THEN [r EXCEPT !.is_current = FALSE, !.updated_at = ts]
      ELSE r : r \in db }
    \cup { Section(id, current.user_id, current.type, current.key,
                   current.flavor, get_next_version(current.version),
                   content, TRUE, ts) }

\* the rows delete_section_version chooses "latest" from: with the session's
\* autoflush the DELETE is flushed before the query runs
SessionAutoflush == TRUE

latest_candidates(db, section) ==
    LET visible == IF SessionAutoflush
                   THEN {r \in db : r.id /= section.id} ELSE db
    IN  get_section_versions(visible, section.user_id, section.type,
                             section.key, section.flavor)

delete_section_version_no_promote(db, ts, section, latest) ==
    {r \in db : r.id /= section.id}

\* section_service.delete_section_version after the block was found: the
\* table after the DELETE and, when the block was current, the promotion
delete_section_version(db, ts, section, latest) ==
    IF section.is_current /\ latest /= None
    THEN { IF r.id = The(latest).id /\ ~r.is_current
           THEN [r EXCEPT !.is_current = TRUE, !.updated_at = ts]
           ELSE r : r \in {q \in db : q.id /= section.id} }
    ELSE {r \in db : r.id /= section.id}

\* ------------------------------------------------------------ the resolver
\* a dict, and a string, is false in a condition exactly when it is empty
TruthyDict(d) == d /= {}

TruthyStr(s) == s /= <<>>

get_section_content_any_user(db, user_id, section_type, section_ref) ==
    LET parts == split(section_ref, ":")
        rows ==
            IF Len(parts) = 3
            THEN {r \in db : r.type = section_type /\ r.key = parts[1]
                             /\ r.flavor = parts[2] /\ r.version = parts[3]}
            ELSE IF Len(parts) = 2
            THEN {r \in db : r.type = section_type /\ r.key = parts[1]
                             /\ r.flavor = parts[2] /\ r.is_current = TRUE}
            ELSE IF Len(parts) = 1
            THEN {r \in db : r.type = section_type /\ r.key = parts[1]
                             /\ r.is_current = TRUE}
            ELSE {}
    IN  { IF section = None THEN None ELSE Some(The(section).content) :
          section \in first(rows) }

get_section_content_current_only(db, user_id, section_type, section_ref) ==
    LET parts == split(section_ref, ":")
        rows ==
            IF Len(parts) = 3
            THEN {r \in db : r.user_id = user_id /\ r.type = section_type
                             /\ r.key = parts[1] /\ r.flavor = parts[2]
                             /\ r.version = parts[3] /\ r.is_current = TRUE}
            ELSE IF Len(parts) = 2
            THEN {r \in db : r.user_id = user_id /\ r.type = section_type
                             /\ r.key = parts[1] /\ r.flavor = parts[2]
                             /\ r.is_current = TRUE}
            ELSE IF Len(parts) = 1
            THEN {r \in db : r.user_id = user_id /\ r.type = section_type
                             /\ r.key = parts[1] /\ r.is_current = TRUE}
            ELSE {}
    IN  { IF section = None THEN None ELSE Some(The(section).content) :
          section \in first(rows) }

\* get_section_content: the values the lookup can return, None or the
\* content of the row that Query.first() picked
get_section_content(db, user_id, section_type, section_ref) ==
    LET parts == split(section_ref, ":")
        rows ==
            IF Len(parts) = 3
            THEN {r \in db : r.user_id = user_id /\ r.type = section_type
                             /\ r.key = parts[1] /\ r.flavor = parts[2]
                             /\ r.version = parts[3]}
            ELSE IF Len(parts) = 2
            THEN {r \in db : r.user_id = user_id /\ r.type = section_type
                             /\ r.key = parts[1] /\ r.flavor = parts[2]
                             /\ r.is_current = TRUE}
            ELSE IF Len(parts) = 1
            THEN {r \in db : r.user_id = user_id /\ r.type = section_type
                             /\ r.key = parts[1] /\ r.is_current = TRUE}
            ELSE {}
    IN  { IF section = None THEN None ELSE Some(The(section).content) :
          section \in first(rows) }

\* the loops over resume_config["experiences"] and ["projects"]
RECURSIVE fetch_list(_, _, _, _)
fetch_list(db, user_id, section_type, refs) ==
    IF refs = <<>> THEN {<<>>}
    ELSE { (IF c /= None /\ TruthyDict(The(c)) THEN <<The(c)>> ELSE <<>>) \o rest :
           c \in get_section_content(db, user_id, section_type, Head(refs)),
           rest \in fetch_list(db, user_id, section_type, Tail(refs)) }

\* the single-valued slots: looked up when the reference is present
fetch_one(db, user_id, section_type, ref) ==
    IF ref /= None /\ TruthyStr(The(ref))
    THEN get_section_content(db, user_id, section_type, The(ref))
    ELSE {None}

\* resume_config.get(key, [])
GetList(opt) == IF opt = None THEN <<>> ELSE The(opt)

\* build_resume_content: the Composed Documents the request can yield
build_resume_content(db, user_id, resume_config) ==
    { [ location |-> l, email |-> m, experiences |-> e, projects |-> p,
        skills |-> s, heading |-> h, education |-> d ] :
      l \in fetch_one(db, user_id, "location", resume_config.location),
      m \in fetch_one(db, user_id, "email", resume_config.email),
      e \in fetch_list(db, user_id, "experience",
                       GetList(resume_config.experiences)),
      p \in fetch_list(db, user_id, "project", GetList(resume_config.projects)),
      s \in fetch_one(db, user_id, "skills", resume_config.skills),
      h \in fetch_one(db, user_id, "heading", resume_config.heading),
      d \in fetch_one(db, user_id, "education", resume_config.education) }

\* ------------------------------------------------------------- bookkeeping
ChainRows(db, c) == get_section_versions(db, c[1], c[2], c[3], c[4])

CurrentRows(db, c) == get_current_section(db, c[1], c[2], c[3], c[4])

Minor(version) == int(split(version, ".")[2])

NoHistory == [maxMinor |-> -1, updates |-> -1]

\* the response to a composition request, with the resume_config it answers
ResolveResponse(user_id, resume_config, content) ==
    [ op |-> "resolve", user_id |-> user_id, chain |-> <<>>, status |-> 200,
      rows |-> {}, ordered |-> <<>>, content |-> Some(content),
      request |-> Some(resume_config) ]

\* the value get_section_content returns for one reference of one slot
LookupResponse(user_id, section_type, section_ref, value) ==
    [ op |-> "lookup", user_id |-> user_id, chain |-> <<>>, status |-> 200,
      rows |-> {}, ordered |-> <<>>, content |-> None,
      request |-> Some([type |-> section_type, ref |-> section_ref]),
      value |-> value ]

\* a response together with the request it answers: the operation, the
\* caller, the chain address of the path (or <<>>), the status code, the
\* rows of the body (for a delete, the row that was removed), the ordered
\* rows of a version listing, the Composed Document
Response(op, user_id, chain, status, rows, ordered, content) ==
    [ op |-> op, user_id |-> user_id, chain |-> chain, status |-> status,
      rows |-> rows, ordered |-> ordered, content |-> content,
      request |-> None ]

\* the response to a put or an update, with the body and the header of the
\* request and the outcome of its AI call
StoreResponse(op, c, status, rows, payload, api_key, ai) ==
    [ op |-> op, user_id |-> c[1], chain |-> c, status |-> status,
      rows |-> rows, ordered |-> <<>>, content |-> None,
      request |-> Some([payload |-> payload, api_key |-> api_key,
                        ai |-> IF api_key = None THEN "no call" ELSE ai]) ]

NoTxn == <<>>

\* the names tempfile.mkdtemp(prefix="resume_build_") can pick
DirNames == {"resume_build_a", "resume_build_b", "resume_build_c"}

\* no scratch directory exists
NoDirs == [d \in DirNames |-> None]

NoRequests == <<>>

\* no text function is running
NoScan == [op |-> "none"]

\* what one more issued label does to a chain's bookkeeping
Issued(h, op, version) ==
    [ maxMinor |-> IF Minor(version) > h.maxMinor THEN Minor(version)
                   ELSE h.maxMinor,
      updates  |-> IF op = "put" THEN 0
                   ELSE IF h.updates >= 0 THEN h.updates + 1 ELSE -1 ]

Init ==
    /\ sections = {}
    /\ nextId = 1
    /\ now = 1
    /\ response = Response("none", "u1", <<>>, 0, {}, <<>>, None)
    /\ history = [c \in Chains |-> NoHistory]
    /\ txn = NoTxn
    /\ fs = NoDirs
    /\ req = NoRequests
    /\ section_configs = {}
    /\ applications = {}
    /\ scan = NoScan

\* --------------------------------------------- requests, one at a time
\* POST /api/sections
PutRequest(c, payload, api_key, ai) ==
    \E existing \in first(get_current_section(sections, c[1], c[2], c[3], c[4])) :
        IF existing /= None
        THEN /\ response' = StoreResponse("put", c, 400, {}, payload, api_key, ai)
             /\ UNCHANGED <<sections, nextId, now, history, txn>>
        ELSE LET content == generate_tags_for_content(api_key, payload, ai)
                 db == create_section(sections, nextId, now,
                                      c[1], c[2], c[3], c[4], content)
             IN  IF uq_section_version(db)
                 THEN /\ sections' = db
                      /\ nextId' = nextId + 1
                      /\ now' = now + 1
                      /\ history' = [history EXCEPT ![c] = Issued(@, "put", V10)]
                      /\ response' = StoreResponse("put", c, 201,
                                              {r \in db : r.id = nextId}, payload, api_key, ai)
                      /\ UNCHANGED txn
                 ELSE /\ response' = StoreResponse("put", c, 500, {}, payload, api_key, ai)
                      /\ UNCHANGED <<sections, nextId, now, history, txn>>

UpdateRequestUpsert(c, payload, api_key, ai) ==
    LET content == generate_tags_for_content(api_key, payload, ai)
    IN  \E current \in first(get_current_section(sections, c[1], c[2], c[3], c[4])) :
            LET db == IF current = None
                      THEN create_section(sections, nextId, now,
                                          c[1], c[2], c[3], c[4], content)
                      ELSE update_section(sections, nextId, now, The(current), content)
            IN  /\ uq_section_version(db)
                /\ sections' = db
                /\ nextId' = nextId + 1
                /\ now' = now + 1
                /\ history' = history
                /\ response' = StoreResponse("update", c, 200,
                                        {r \in db : r.id = nextId}, payload, api_key, ai)
                /\ UNCHANGED txn

\* PUT /api/sections/{type}/{key}/{flavor}
UpdateRequest(c, payload, api_key, ai) ==
    LET content == generate_tags_for_content(api_key, payload, ai)
    IN  \E current \in first(get_current_section(sections, c[1], c[2], c[3], c[4])) :
            IF current = None
            THEN /\ response' = StoreResponse("update", c, 404, {}, payload, api_key, ai)
                 /\ UNCHANGED <<sections, nextId, now, history, txn>>
            ELSE LET db == update_section(sections, nextId, now, The(current), content)
                 IN  IF uq_section_version(db)
                     THEN /\ sections' = db
                          /\ nextId' = nextId + 1
                          /\ now' = now + 1
                          /\ history' =
                                 [history EXCEPT ![c] =
                                     Issued(@, "update",
                                            get_next_version(The(current).version))]
                          /\ response' = StoreResponse("update", c, 200,
                                                  {r \in db : r.id = nextId},
                                                  payload, api_key, ai)
                          /\ UNCHANGED txn
                     ELSE /\ response' = StoreResponse("update", c, 500, {}, payload, api_key, ai)
                          /\ UNCHANGED <<sections, nextId, now, history, txn>>

\* DELETE /api/sections/{type}/{key}/{flavor}/{version}
DeleteRequest(c, version) ==
    \E section \in first(get_section_by_version(sections, c[1], c[2], c[3], c[4],
                                                version)) :
        IF section = None
        THEN /\ response' = Response("deleteVersion", c[1], c, 404, {}, <<>>, None)
             /\ UNCHANGED <<sections, nextId, now, history, txn>>
        ELSE \E latest \in first_created_desc(latest_candidates(sections, The(section))) :
                 /\ sections' = delete_section_version(sections, now,
                                                       The(section), latest)
                 /\ now' = now + 1
                 /\ history' = [history EXCEPT ![c].updates = -1]
                 /\ response' = Response("deleteVersion", c[1], c, 204,
                                         section, <<>>, None)
                 /\ UNCHANGED <<nextId, txn>>

\* the version labels a request may name
VersionInputs(n) == { <<"1", ".">> \o str(k) : k \in 0..n }

Put ==
    /\ now <= MaxClock
    /\ \E c \in StoreChains, payload \in {TitleDict}, api_key \in ApiKeys :
           PutRequest(c, payload, api_key, "tags")
    /\ UNCHANGED pipeline

Update ==
    /\ now <= MaxClock
    /\ \E c \in StoreChains, payload \in {TitleDict}, api_key \in ApiKeys :
           UpdateRequest(c, payload, api_key, "tags")
    /\ UNCHANGED pipeline

DeleteVersion ==
    /\ now <= MaxClock
    /\ \E c \in StoreChains, version \in VersionInputs(MaxClock) :
           DeleteRequest(c, version)
    /\ UNCHANGED pipeline

Next == Put \/ Update \/ DeleteVersion

Spec == Init /\ [][Next]_vars

\* ------------------------------------- one chain, a long run of updates
LongPut ==
    /\ now <= MaxClockLong
    /\ PutRequest(LongChain, TitleDict, None, "tags")
    /\ UNCHANGED pipeline

LongUpdate ==
    /\ now <= MaxClockLong
    /\ UpdateRequest(LongChain, TitleDict, None, "tags")
    /\ UNCHANGED pipeline

\* deletes of the first block, of the current block or of no block
LongDeleteVersion ==
    /\ now <= MaxClockLong
    /\ \E version \in {V10, <<"9", ".", "9">>}
                      \cup {r.version : r \in CurrentRows(sections, LongChain)} :
           DeleteRequest(LongChain, version)
    /\ UNCHANGED pipeline

NextLong == LongPut \/ LongUpdate \/ LongDeleteVersion

SpecLong == Init /\ [][NextLong]_vars

\* --------------------------- one chain, requests with and without AI tags
AiPut ==
    /\ now <= MaxClock
    /\ \E api_key \in ApiKeys, ai \in AiOutcomes :
           PutRequest(LongChain, TitleDict, api_key, ai)
    /\ UNCHANGED pipeline

AiUpdate ==
    /\ now <= MaxClock
    /\ \E api_key \in ApiKeys, ai \in AiOutcomes :
           UpdateRequest(LongChain, TitleDict, api_key, ai)
    /\ UNCHANGED pipeline

AiDeleteVersion ==
    /\ now <= MaxClock
    /\ \E version \in VersionInputs(MaxClock) : DeleteRequest(LongChain, version)
    /\ UNCHANGED pipeline

NextAi == AiPut \/ AiUpdate \/ AiDeleteVersion

SpecAi == Init /\ [][NextAi]_vars

\* ------------------------------------------ the store with its readers
SeqsUpTo(S, n) == UNION { [1..k -> S] : k \in 0..n }

ResumeConfig(l, m, e, p, s, h, d) ==
    [ location |-> l, email |-> m, experiences |-> e, projects |-> p,
      skills |-> s, heading |-> h, education |-> d ]

\* the composition requests of a run: lists of experience references, a
\* project reference next to an experience reference, every single-valued
\* slot filled, references of four segments, a slot holding the empty string
ResumeConfigs ==
    { ResumeConfig(None, None, e, None, None, None, None) :
        e \in {None} \cup { Some(x) : x \in SeqsUpTo(RefPool, MaxRefs) } }
    \cup { ResumeConfig(None, None, Some(<<RefKF>>), Some(<<r>>),
                        None, None, None) : r \in {RefKF, RefMissing} }
    \cup { ResumeConfig(Some(RefKF), Some(RefKF), None, None, Some(RefKF),
                        Some(RefKF), Some(RefKF)),
           ResumeConfig(None, None, Some(<<RefFour, RefKF>>), Some(<<RefFour>>),
                        None, None, None),
           ResumeConfig(None, None, None, Some(<<>>), Some(<<>>), None, None) }

\* the one row of a query that has exactly one
Only(rows) == CHOOSE r \in rows : TRUE

\* a table built by put and update requests of both users: user u1 holds a
\* superseded and a current block in one variant, a current block in a
\* second variant of the same key and a project; user u2 holds a block at
\* an address u1 also uses
ReadStore(c1, c2) ==
    LET s1 == create_section({}, 1, 1, "u1", Experience, KeyA, FlavorS, TitleDict)
        s2 == update_section(s1, 2, 2,
                  Only(get_current_section(s1, "u1", Experience, KeyA, FlavorS)),
                  c1)
        s3 == create_section(s2, 3, 3, "u1", Experience, KeyA, FlavorT, c2)
        s4 == create_section(s3, 4, 4, "u2", Experience, KeyA, FlavorS, OtherDict)
    IN  create_section(s4, 5, 5, "u1", Project, KeyA, FlavorS, TitleDict)

ReadStores ==
    {{}} \cup { ReadStore(c1, c2) : c1 \in PayloadsOf("u1"), c2 \in PayloadsOf("u1") }

\* the first primary key and clock value ReadStore leaves unused
ReadClock == Cardinality(ReadStore(EmptyDict, EmptyDict)) + 1

InitRead ==
    /\ sections \in ReadStores
    /\ nextId = ReadClock
    /\ now = ReadClock
    /\ response = Response("none", "u1", <<>>, 0, {}, <<>>, None)
    /\ history = [c \in Chains |->
                     IF ChainRows(sections, c) = {} THEN NoHistory
                     ELSE LET top == Only({r \in ChainRows(sections, c) :
                                              r.is_current})
                          IN  [maxMinor |-> Minor(top.version),
                               updates |-> Minor(top.version)]]
    /\ txn = NoTxn
    /\ fs = NoDirs
    /\ req = NoRequests
    /\ section_configs = {}
    /\ applications = {}
    /\ scan = NoScan

ReadPut ==
    /\ now < ReadClock + MaxClockRead
    /\ \E c \in Chains : \E payload \in PayloadsOf(c[1]) :
           PutRequest(c, payload, None, "tags")
    /\ UNCHANGED pipeline

ReadUpdate ==
    /\ now < ReadClock + MaxClockRead
    /\ \E c \in Chains : \E payload \in PayloadsOf(c[1]) :
           UpdateRequest(c, payload, None, "tags")
    /\ UNCHANGED pipeline

ReadDeleteVersion ==
    /\ now < ReadClock + MaxClockRead
    /\ \E c \in Chains, version \in VersionInputs(1) :
           DeleteRequest(c, version)
    /\ UNCHANGED pipeline

\* GET /api/sections
ListSections ==
    \E user_id \in Users :
        /\ response' = Response("list", user_id, <<>>, 200,
                                get_all_sections(sections, user_id), <<>>, None)
        /\ UNCHANGED <<sections, nextId, now, history, txn, pipeline>>

\* GET /api/sections/{type}
ListSectionsByType ==
    \E user_id \in Users, type \in {Experience, Project} :
        /\ response' = Response("listByType", user_id, <<>>, 200,
                                get_sections_by_type(sections, user_id, type),
                                <<>>, None)
        /\ UNCHANGED <<sections, nextId, now, history, txn, pipeline>>

\* GET /api/sections/{type}/{key}/{flavor}
GetSectionVersions ==
    \E user_id \in Users, c \in Chains :
    \E ordered \in all_created_desc(
                       get_section_versions(sections, user_id, c[2], c[3], c[4])) :
        /\ response' = Response("listVersions", user_id,
                                <<user_id, c[2], c[3], c[4]>>, 200,
                                {}, ordered, None)
        /\ UNCHANGED <<sections, nextId, now, history, txn, pipeline>>

\* GET /api/sections/{type}/{key}/{flavor}/{version}
GetSectionByVersion ==
    \E user_id \in Users, c \in Chains, version \in VersionInputs(1) :
    \E section \in first(get_section_by_version(sections, user_id,
                                                c[2], c[3], c[4], version)) :
        /\ response' = Response("getVersion", user_id,
                                <<user_id, c[2], c[3], c[4]>>,
                                IF section = None THEN 404 ELSE 200,
                                section, <<>>, None)
        /\ UNCHANGED <<sections, nextId, now, history, txn, pipeline>>

\* the composition step of POST /api/generate
Resolve ==
    \E user_id \in Users, resume_config \in ResumeConfigs :
    \E content \in build_resume_content(sections, user_id, resume_config) :
        /\ response' = ResolveResponse(user_id, resume_config, content)
        /\ UNCHANGED <<sections, nextId, now, history, txn, pipeline>>

\* one reference of one slot of a composition request
GetSectionContent ==
    \E user_id \in Users, section_type \in {Experience, Project},
       section_ref \in RefPool \cup {RefFour} :
    \E value \in get_section_content(sections, user_id, section_type,
                                     section_ref) :
        /\ response' = LookupResponse(user_id, section_type, section_ref, value)
        /\ UNCHANGED <<sections, nextId, now, history, txn, pipeline>>

NextRead ==
    \/ ReadPut \/ ReadUpdate \/ ReadDeleteVersion
    \/ ListSections \/ ListSectionsByType \/ GetSectionVersions
    \/ GetSectionByVersion \/ Resolve \/ GetSectionContent

SpecRead == InitRead /\ [][NextRead]_vars

\* ------------------------------------------- two updates at the same time
\* Each request runs in a session of its own.  Its transaction starts with
\* the SELECT of get_current_section, which reads the committed table; the
\* UPDATE and the INSERT are flushed by db.commit().  Under the read
\* committed isolation of PostgreSQL a second writer of the same row or of
\* the same unique key waits for the first to commit, so flush and commit
\* take effect as one step on the committed table.
Procs == {"t1", "t2"}

ConcChain == <<"u1", Experience, KeyA, FlavorS>>

Txn(pc, content, read, ts, status, new) ==
    [ pc |-> pc, content |-> content, read |-> read, ts |-> ts,
      status |-> status, new |-> new ]

\* the tables the two requests can find: no block, the block of a put, the
\* blocks of a put and an update
ConcStores ==
    {{}}
    \cup { create_section({}, 1, 1, ConcChain[1], ConcChain[2], ConcChain[3],
                          ConcChain[4], c0) : c0 \in Payloads }
    \cup { update_section(
               create_section({}, 1, 1, ConcChain[1], ConcChain[2],
                              ConcChain[3], ConcChain[4], c0),
               2, 2,
               Section(1, ConcChain[1], ConcChain[2], ConcChain[3],
                       ConcChain[4], V10, c0, TRUE, 1),
               c1) : c0 \in Payloads, c1 \in Payloads }

InitConc ==
    /\ sections \in ConcStores
    /\ nextId = 3
    /\ now = 3
    /\ response = Response("none", "u1", <<>>, 0, {}, <<>>, None)
    /\ history = [c \in Chains |-> NoHistory]
    /\ txn = [p \in Procs |-> Txn("start", {}, None, 0, 0, 0)]
    /\ fs = NoDirs
    /\ req = NoRequests
    /\ section_configs = {}
    /\ applications = {}
    /\ scan = NoScan

\* a DELETE that was flushed and not yet committed holds the lock of its
\* row: an UPDATE of that row by another transaction waits for the commit
Locked(p, id) ==
    \E q \in DOMAIN txn \ {p} :
        SessionAutoflush /\ txn[q].pc = "flushed" /\ The(txn[q].read).id = id

stale_never(db, current) == FALSE

\* the UPDATE of the block that was read matches no row: the flush raises
\* StaleDataError and the transaction is rolled back
stale(db, current) == \A r \in db : r.id /= current.id

\* router update_section up to the SELECT of section_service.update_section
UpdateBegin(p) ==
    /\ txn[p].pc = "start"
    /\ \E payload \in Payloads, api_key \in ApiKeys, ai \in AiOutcomes :
       \E current \in first(get_current_section(sections, ConcChain[1],
                              ConcChain[2], ConcChain[3], ConcChain[4])) :
           LET content == generate_tags_for_content(api_key, payload, ai)
           IN  /\ txn' = [txn EXCEPT ![p] =
                             IF current = None
                             THEN Txn("done", content, None, now, 404, 0)
                             ELSE Txn("read", content, current, now, 0, 0)]
               /\ now' = now + 1
    /\ UNCHANGED <<sections, nextId, response, history, pipeline>>

\* db.commit() of section_service.update_section: UPDATE of the row that
\* was read, INSERT of the new version, COMMIT or rollback
UpdateCommit(p) ==
    /\ txn[p].pc = "read"
    /\ ~Locked(p, The(txn[p].read).id)
    /\ LET current == The(txn[p].read)
           db == update_section(sections, nextId, txn[p].ts, current,
                                txn[p].content)
       IN  IF stale(sections, current) \/ ~uq_section_version(db)
           THEN /\ txn' = [txn EXCEPT ![p].pc = "done", ![p].status = 500]
                /\ UNCHANGED <<sections, nextId>>
           ELSE /\ sections' = db
                /\ nextId' = nextId + 1
                /\ txn' = [txn EXCEPT ![p].pc = "done", ![p].status = 200,
                                      ![p].new = nextId]
    /\ UNCHANGED <<now, response, history, pipeline>>

NextConc == \E p \in Procs : UpdateBegin(p) \/ UpdateCommit(p)

SpecConc == InitConc /\ [][NextConc]_vars

\* ------------------------------- an update and a deleteVersion together
DelTxn(pc, version, read, latest, ts, status) ==
    [ pc |-> pc, content |-> {}, read |-> read, ts |-> ts, status |-> status,
      new |-> 0, version |-> version, latest |-> latest ]

InitUpdDel ==
    /\ sections \in ConcStores
    /\ nextId = 3
    /\ now = 3
    /\ response = Response("none", "u1", <<>>, 0, {}, <<>>, None)
    /\ history = [c \in Chains |-> NoHistory]
    /\ txn = [p \in Procs |->
                 IF p = "t1" THEN Txn("start", {}, None, 0, 0, 0)
                 ELSE DelTxn("dstart", <<>>, None, None, 0, 0)]
    /\ fs = NoDirs
    /\ req = NoRequests
    /\ section_configs = {}
    /\ applications = {}
    /\ scan = NoScan

\* section_service.delete_section_version up to the SELECT of the block
DeleteBegin(p) ==
    /\ txn[p].pc = "dstart"
    /\ \E version \in VersionInputs(2) :
       \E section \in first(get_section_by_version(sections, ConcChain[1],
                              ConcChain[2], ConcChain[3], ConcChain[4],
                              version)) :
           /\ txn' = [txn EXCEPT ![p] =
                         IF section = None
                         THEN DelTxn("done", version, None, None, now, 404)
                         ELSE DelTxn("dread", version, section, None, now, 0)]
           /\ now' = now + 1
    /\ UNCHANGED <<sections, nextId, response, history, pipeline>>

\* db.delete(section) and, for a block that was read as current, the query
\* of the latest remaining block, before which the DELETE is flushed
DeleteFlush(p) ==
    /\ txn[p].pc = "dread"
    /\ The(txn[p].read).is_current
    /\ \E latest \in first_created_desc(latest_candidates(sections,
                                                           The(txn[p].read))) :
           txn' = [txn EXCEPT ![p].pc = "flushed", ![p].latest = latest]
    /\ UNCHANGED <<sections, nextId, now, response, history, pipeline>>

\* db.commit() of section_service.delete_section_version
DeleteCommit(p) ==
    /\ \/ txn[p].pc = "flushed"
       \/ txn[p].pc = "dread" /\ ~The(txn[p].read).is_current
    /\ sections' = delete_section_version(sections, txn[p].ts,
                                          The(txn[p].read), txn[p].latest)
    /\ txn' = [txn EXCEPT ![p].pc = "done", ![p].status = 204]
    /\ UNCHANGED <<nextId, now, response, history, pipeline>>

NextUpdDel ==
    \/ UpdateBegin("t1")
    \/ UpdateCommit("t1")
    \/ DeleteBegin("t2")
    \/ DeleteFlush("t2")
    \/ DeleteCommit("t2")

SpecUpdDel == InitUpdDel /\ [][NextUpdDel]_vars

\* ------------------------------------------------ two puts at the same time
InitPuts ==
    /\ sections = {}
    /\ nextId = 1
    /\ now = 1
    /\ response = Response("none", "u1", <<>>, 0, {}, <<>>, None)
    /\ history = [c \in Chains |-> NoHistory]
    /\ txn = [p \in Procs |-> Txn("pstart", {}, None, 0, 0, 0)]
    /\ fs = NoDirs
    /\ req = NoRequests
    /\ section_configs = {}
    /\ applications = {}
    /\ scan = NoScan

\* router create_section up to the call of section_service.create_section
PutBegin(p) ==
    /\ txn[p].pc = "pstart"
    /\ \E payload \in Payloads, api_key \in ApiKeys, ai \in AiOutcomes :
       \E existing \in first(get_current_section(sections, ConcChain[1],
                               ConcChain[2], ConcChain[3], ConcChain[4])) :
           /\ txn' = [txn EXCEPT ![p] =
                         IF existing /= None
                         THEN Txn("done", payload, existing, now, 400, 0)
                         ELSE Txn("pread",
                                  generate_tags_for_content(api_key, payload, ai),
                                  None, now, 0, 0)]
           /\ now' = now + 1
    /\ UNCHANGED <<sections, nextId, response, history, pipeline>>

\* db.commit() of section_service.create_section: INSERT, COMMIT or rollback
PutCommit(p) ==
    /\ txn[p].pc = "pread"
    /\ LET db == create_section(sections, nextId, txn[p].ts, ConcChain[1],
                                ConcChain[2], ConcChain[3], ConcChain[4],
                                txn[p].content)
       IN  IF uq_section_version(db)
           THEN /\ sections' = db
                /\ nextId' = nextId + 1
                /\ txn' = [txn EXCEPT ![p].pc = "done", ![p].status = 201,
                                      ![p].new = nextId]
           ELSE /\ txn' = [txn EXCEPT ![p].pc = "done", ![p].status = 500]
                /\ UNCHANGED <<sections, nextId>>
    /\ UNCHANGED <<now, response, history, pipeline>>

NextPuts == \E p \in Procs : PutBegin(p) \/ PutCommit(p)

SpecPuts == InitPuts /\ [][NextPuts]_vars

\* ------------------------------------------------------- bulk creation
\* key = Column(String(100)), flavor = Column(String(100))
KeyColumnLength == 100
FlavorColumnLength == 100

\* a key the key column cannot hold
KeyLong == [i \in 1..(KeyColumnLength + 1) |-> "k"]

\* the INSERT of a row whose key or flavor is longer than its column fails
\* in PostgreSQL (value too long for type character varying)
column_lengths(db) ==
    \A r \in db : Len(r.key) <= KeyColumnLength
                   /\ Len(r.flavor) <= FlavorColumnLength

SectionCreate(type, key, flavor, content) ==
    [ type |-> type, key |-> key, flavor |-> flavor, content |-> content ]

\* the items of the bulk requests: two variants of one key and an item
\* whose INSERT fails
BulkItems ==
    { SectionCreate(Experience, KeyA, FlavorS, TitleDict),
      SectionCreate(Experience, KeyA, FlavorT, TitleDict),
      SectionCreate(Experience, KeyLong, FlavorS, TitleDict) }

\* the state of the loop of bulk_create_sections: the table, the next
\* primary key, the clock, whether the session's transaction is usable,
\* the two result lists (with the position of each item in the request)
BulkState(db, id, ts, active, success, failed) ==
    [ db |-> db, nextId |-> id, now |-> ts, active |-> active,
      success |-> success, failed |-> failed ]

\* one pass of the loop body.  A commit that fails leaves the session's
\* transaction rolled back and inactive; nothing in the loop calls
\* db.rollback(), so every later statement on the session raises
\* PendingRollbackError, which the except clause reports for that item.
bulk_item(st, user_id, section, api_key, ai, i) ==
    IF ~st.active
    THEN [st EXCEPT !.failed =
             Append(@, [index |-> i, key |-> section.key,
                        error |-> "PendingRollbackError"])]
    ELSE IF get_current_section(st.db, user_id, section.type, section.key,
                                section.flavor) /= {}
    THEN [st EXCEPT !.failed =
             Append(@, [index |-> i, key |-> section.key,
                        error |-> "Section already exists"])]
    ELSE LET content == generate_tags_for_content(api_key, section.content, ai)
             db == create_section(st.db, st.nextId, st.now, user_id,
                                  section.type, section.key, section.flavor,
                                  content)
         IN  IF uq_section_version(db) /\ column_lengths(db)
             THEN [st EXCEPT !.db = db, !.nextId = @ + 1, !.now = @ + 1,
                             !.success =
                                 Append(@, [index |-> i, id |-> st.nextId])]
             ELSE [st EXCEPT !.active = FALSE,
                             !.failed =
                                 Append(@, [index |-> i, key |-> section.key,
                                            error |-> "DBAPIError"])]

\* bulk_create_sections: the loop over the items, in order
RECURSIVE bulk_create_sections(_, _, _, _, _, _)
bulk_create_sections(st, user_id, items, api_key, ai, i) ==
    IF i > Len(items) THEN st
    ELSE bulk_create_sections(bulk_item(st, user_id, items[i], api_key, ai, i),
                              user_id, items, api_key, ai, i + 1)

\* the response to a bulk request, with the items it answers
BulkResponse(user_id, items, st) ==
    [ op |-> "bulk", user_id |-> user_id, chain |-> <<>>, status |-> 201,
      rows |-> {r \in st.db : \E e \in 1..Len(st.success) :
                                 st.success[e].id = r.id},
      ordered |-> <<>>, content |-> None, request |-> Some(items),
      success |-> st.success, failed |-> st.failed ]

RECURSIVE IssuedAll(_, _, _)
IssuedAll(h, rows, ids) ==
    IF ids = <<>> THEN h
    ELSE LET r == Only({x \in rows : x.id = Head(ids).id})
         IN  IssuedAll(IF ChainOf(r) \in DOMAIN h
                       THEN [h EXCEPT ![ChainOf(r)] = Issued(@, "put", V10)]
                       ELSE h,
                       rows, Tail(ids))

\* POST /api/sections/bulk
BulkCreate ==
    /\ now <= MaxClock
    /\ \E user_id \in {"u1"}, items \in SeqsUpTo(BulkItems, MaxItems),
          api_key \in ApiKeys, ai \in {"tags", "raise"} :
          LET st == bulk_create_sections(
                        BulkState(sections, nextId, now, TRUE, <<>>, <<>>),
                        user_id, items, api_key, ai, 1)
          IN  /\ sections' = st.db
              /\ nextId' = st.nextId
              /\ now' = st.now
              /\ history' = IssuedAll(history, st.db, st.success)
              /\ response' = BulkResponse(user_id, items, st)
              /\ UNCHANGED txn
    /\ UNCHANGED pipeline

BulkUpdate ==
    /\ now <= MaxClock
    /\ \E flavor \in {FlavorS, FlavorT} :
          UpdateRequest(<<"u1", Experience, KeyA, flavor>>, TitleDict, None, "tags")
    /\ UNCHANGED pipeline

BulkDeleteVersion ==
    /\ now <= MaxClock
    /\ \E flavor \in {FlavorS, FlavorT}, version \in VersionInputs(1) :
          DeleteRequest(<<"u1", Experience, KeyA, flavor>>, version)
    /\ UNCHANGED pipeline

NextBulk == BulkCreate \/ BulkUpdate \/ BulkDeleteVersion

SpecBulk == Init /\ [][NextBulk]_vars

\* ------------------------------------------------- the section configs
\* the (owner, section_type, section_key) addresses of the config requests
ConfigSlots ==
    { <<"u1", Experience, KeyA>>, <<"u1", Experience, <<"b">>>>,
      <<"u2", Experience, KeyA>> }

\* request bodies: the three priorities and one that is none of them; no
\* fixed_flavor, the empty string, a flavor
PriorityInputs == {"always", "normal", "never", "sometimes"}

FixedFlavorInputs == {None, Some(<<>>), Some(FlavorS)}

\* SectionConfigBase.validate_priority
validate_priority(v) == v \in {"always", "normal", "never"}

SectionConfig(user_id, section_type, section_key, priority, fixed_flavor) ==
    [ user_id |-> user_id, section_type |-> section_type,
      section_key |-> section_key, priority |-> priority,
      fixed_flavor |-> fixed_flavor ]

\* the filter on user_id, section_type and section_key
config_query(db, user_id, section_type, section_key) ==
    { r \in db : r.user_id = user_id /\ r.section_type = section_type
                 /\ r.section_key = section_key }

upsert_section_config_unchecked(db, user_id, section_type, section_key, priority, fixed_flavor) ==
    { IF config /= None
      THEN [ status |-> 200,
             db |-> (db \ config)
                    \cup { [The(config) EXCEPT !.priority = priority,
                                               !.fixed_flavor = fixed_flavor] } ]
      ELSE [ status |-> 200,
             db |-> db \cup { SectionConfig(user_id, section_type, section_key,
                                            priority, fixed_flavor) } ] :
      config \in first(config_query(db, user_id, section_type, section_key)) }

\* upsert_section_config: the status and the table each outcome leaves;
\* 422 is the answer of the request model, 400 the answer of the handler
upsert_section_config(db, user_id, section_type, section_key, priority, fixed_flavor) ==
    IF ~validate_priority(priority)
    THEN { [status |-> 422, db |-> db] }
    ELSE IF priority = "always"
            /\ (fixed_flavor = None \/ ~TruthyStr(The(fixed_flavor)))
    THEN { [status |-> 400, db |-> db] }
    ELSE { IF config /= None
           THEN [ status |-> 200,
                  db |-> (db \ config)
                         \cup { [The(config) EXCEPT
                                    !.priority = priority,
                                    !.fixed_flavor = fixed_flavor] } ]
           ELSE [ status |-> 200,
                  db |-> db \cup { SectionConfig(user_id, section_type,
                                                 section_key, priority,
                                                 fixed_flavor) } ] :
           config \in first(config_query(db, user_id, section_type,
                                         section_key)) }

\* delete_section_config
delete_section_config(db, user_id, section_type, section_key) ==
    db \ config_query(db, user_id, section_type, section_key)

\* get_section_config: the stored row or the default config
get_section_config(db, user_id, section_type, section_key) ==
    { IF config = None
      THEN SectionConfig(user_id, section_type, section_key, "normal", None)
      ELSE The(config) :
      config \in first(config_query(db, user_id, section_type, section_key)) }

\* a response of the config router with the request it answers
ConfigResponse(op, slot, status, priority, fixed_flavor, rows) ==
    [ op |-> op, user_id |-> slot[1], chain |-> slot, status |-> status,
      rows |-> rows, ordered |-> <<>>, content |-> None,
      request |-> Some([priority |-> priority, fixed_flavor |-> fixed_flavor]) ]

\* PUT /api/section-configs/{section_type}/{section_key}
UpsertSectionConfig ==
    \E slot \in ConfigSlots, priority \in PriorityInputs,
       fixed_flavor \in FixedFlavorInputs :
    \E res \in upsert_section_config(section_configs, slot[1], slot[2], slot[3],
                                     priority, fixed_flavor) :
        /\ section_configs' = res.db
        /\ response' = ConfigResponse("upsertConfig", slot, res.status, priority,
                                      fixed_flavor,
                                      IF res.status = 200
                                      THEN config_query(res.db, slot[1], slot[2],
                                                        slot[3])
                                      ELSE {})
        /\ UNCHANGED <<sections, nextId, now, history, txn, fs, req, applications, scan>>

\* DELETE /api/section-configs/{section_type}/{section_key}
DeleteSectionConfig ==
    \E slot \in ConfigSlots :
        /\ section_configs' = delete_section_config(section_configs, slot[1],
                                                    slot[2], slot[3])
        /\ response' = ConfigResponse("deleteConfig", slot, 200, "normal", None, {})
        /\ UNCHANGED <<sections, nextId, now, history, txn, fs, req, applications, scan>>

\* GET /api/section-configs/{section_type}/{section_key}
GetSectionConfig ==
    \E slot \in ConfigSlots :
    \E config \in get_section_config(section_configs, slot[1], slot[2], slot[3]) :
        /\ response' = ConfigResponse("getConfig", slot, 200, "normal", None,
                                      {config})
        /\ UNCHANGED <<sections, nextId, now, history, txn, fs, req,
                       section_configs, applications, scan>>

NextConfig == UpsertSectionConfig \/ DeleteSectionConfig \/ GetSectionConfig

SpecConfig == Init /\ [][NextConfig]_vars

\* ------------------------------------------------- the build pipeline
\* A scratch directory is a record: the request that created it and its
\* files, a function from path to what was written there (by whom, from
\* which data).  fs maps each name to None or to the directory of that name.
File(by, data) == [by |-> by, data |-> data]

\* the files under TEMPLATES_DIR: the two files copied by name and the
\* files of templates/src, of which generate_latex_files names four
TopFiles == {"resume.tex", "custom-commands.tex"}

SrcFiles ==
    {"src/experience.tex", "src/projects.tex", "src/skills.tex",
     "src/heading.tex", "src/education.tex"}

Skeleton == [f \in TopFiles \cup SrcFiles |-> File("templates", <<>>)]

NoFiles == [f \in {} |-> File("templates", <<>>)]

Dir(owner, files) == [owner |-> owner, files |-> files]

\* open(path, "w").write(text), shutil.copy: the file is created or replaced
WriteFile(files, path, file) ==
    [f \in DOMAIN files \cup {path} |-> IF f = path THEN file ELSE files[f]]

CopyFiles_nothing(files, S) == files

\* shutil.copy of the files S of the skeleton
CopyFiles(files, S) ==
    [f \in DOMAIN files \cup S |-> IF f \in S THEN Skeleton[f] ELSE files[f]]

mkdtemp_fixed_name(fsv) == {"resume_build_a"}

\* tempfile.mkdtemp: a name under which nothing exists
mkdtemp(fsv) == {d \in DirNames : fsv[d] = None}

\* dict.get("value") of a location or email payload
GetValue(d) == {p[2] : p \in {q \in d : q[1] = "value"}}

generate_latex_files_heading_always(content, files) ==
    LET f1 == IF content.experiences /= <<>>
              THEN WriteFile(files, "src/experience.tex",
                             File("generate_latex_files", content.experiences))
              ELSE files
        f2 == IF content.projects /= <<>>
              THEN WriteFile(f1, "src/projects.tex",
                             File("generate_latex_files", content.projects))
              ELSE f1
        f3 == IF content.skills /= None /\ TruthyDict(The(content.skills))
              THEN WriteFile(f2, "src/skills.tex",
                             File("generate_latex_files", <<The(content.skills)>>))
              ELSE f2
    IN  WriteFile(f3, "src/heading.tex",
                  File("generate_latex_files", <<content.heading, None, None>>))

\* generate_latex_files: the files of the build directory after the writes
generate_latex_files(content, files) ==
    LET f1 == IF content.experiences /= <<>>
              THEN WriteFile(files, "src/experience.tex",
                             File("generate_latex_files", content.experiences))
              ELSE files
        f2 == IF content.projects /= <<>>
              THEN WriteFile(f1, "src/projects.tex",
                             File("generate_latex_files", content.projects))
              ELSE f1
        f3 == IF content.skills /= None /\ TruthyDict(The(content.skills))
              THEN WriteFile(f2, "src/skills.tex",
                             File("generate_latex_files", <<The(content.skills)>>))
              ELSE f2
        location_value ==
            IF content.location /= None /\ TruthyDict(The(content.location))
            THEN GetValue(The(content.location)) ELSE None
        email_value ==
            IF content.email /= None /\ TruthyDict(The(content.email))
            THEN GetValue(The(content.email)) ELSE None
    IN  IF \/ (location_value /= None /\ TruthyStr(The(location_value)))
           \/ (email_value /= None /\ TruthyStr(The(email_value)))
           \/ (content.heading /= None /\ TruthyDict(The(content.heading)))
        THEN WriteFile(f3, "src/heading.tex",
                       File("generate_latex_files",
                            <<content.heading, location_value, email_value>>))
        ELSE f3

\* what one run of pdflatex can do: exceed the timeout, fail to start, or
\* exit with a return code after writing (or not) resume.pdf and a log with
\* (or without) lines that start with "!"
Pass(kind, returncode, pdf, log) ==
    [kind |-> kind, returncode |-> returncode, pdf |-> pdf, log |-> log]

PassOutcomes ==
    { Pass("timeout", 0, FALSE, "none"),
      Pass("oserror", 0, FALSE, "none"),
      Pass("exit", 0, TRUE, "clean"),
      Pass("exit", 1, TRUE, "errors"),
      Pass("exit", 1, FALSE, "errors"),
      Pass("exit", 1, FALSE, "none") }

\* the files of the build directory after a run
pdflatex(files, out) ==
    LET f1 == IF out.pdf
              THEN WriteFile(files, "resume.pdf", File("pdflatex", <<>>))
              ELSE files
    IN  IF out.log = "none" THEN f1
        ELSE WriteFile(f1, "resume.log", File("pdflatex", <<out.log>>))

compile_pdf_returncode(files, returncodes) ==
    IF "resume.pdf" \in DOMAIN files /\ \A i \in 1..Len(returncodes) :
                                            returncodes[i] = 0
    THEN [error |-> "none", message |-> "", pdf_bytes |-> Some("resume.pdf")]
    ELSE [error |-> "Exception", message |-> "PDF compilation failed",
          pdf_bytes |-> None]

\* compile_pdf after its two runs: the bytes of resume.pdf, or the exception
\* with the lines of the log that start with "!" (the generic message when
\* there is no log or no such line)
compile_pdf(files, returncodes) ==
    IF "resume.pdf" \notin DOMAIN files
    THEN [ error |-> "Exception",
           message |-> IF "resume.log" \in DOMAIN files
                          /\ files["resume.log"].data = <<"errors">>
                       THEN "! lines of resume.log"
                       ELSE "PDF compilation failed",
           pdf_bytes |-> None ]
    ELSE [error |-> "none", message |-> "", pdf_bytes |-> Some("resume.pdf")]

finally_rmtree_on_success(fsv, build_dir, error) ==
    IF error = "none" THEN [fsv EXCEPT ![build_dir] = None] ELSE fsv

\* finally: shutil.rmtree(build_dir, ignore_errors=True)
finally_rmtree(fsv, build_dir, error) == [fsv EXCEPT ![build_dir] = None]

\* the payloads of the single-valued slots
HeadingDict == { <<"name", <<"N">>>> }
SkillsDict == { <<"languages", <<"P">>>> }
ValueDict == { <<"value", <<"B">>>> }
EmptyValueDict == { <<"value", <<>>>> }

\* a table for the pipeline: owner u1 holds an experience, a skills, a
\* heading, a location and an email block, each at a:s
BuildStore(heading, location) ==
    LET s1 == create_section({}, 1, 1, "u1", Experience, KeyA, FlavorS, TitleDict)
        s2 == create_section(s1, 2, 2, "u1", "skills", KeyA, FlavorS, SkillsDict)
        s3 == create_section(s2, 3, 3, "u1", "heading", KeyA, FlavorS, heading)
        s4 == create_section(s3, 4, 4, "u1", "location", KeyA, FlavorS, location)
    IN  create_section(s4, 5, 5, "u1", "email", KeyA, FlavorS, ValueDict)

BuildStores ==
    { BuildStore(h, l) : h \in {EmptyDict, HeadingDict},
                         l \in {ValueDict, EmptyValueDict} }

\* the resume_config of the generate requests: nothing, the three list and
\* dict fragments, each of the three inputs of the heading alone
BuildConfigs ==
    { ResumeConfig(None, None, None, None, None, None, None),
      ResumeConfig(None, None, Some(<<RefKF>>), Some(<<RefMissing>>),
                   Some(RefKF), None, None),
      ResumeConfig(None, None, None, None, None, Some(RefKF), None),
      ResumeConfig(Some(RefKF), None, None, None, None, None, None),
      ResumeConfig(None, Some(RefKF), None, None, None, None, None) }

\* a generate request before its first step
NewRequest ==
    [ pc |-> "start", user_id |-> "u1", resume_config |-> None,
      build_dir |-> None, content |-> None, returncodes |-> <<>>,
      cause |-> "none", error |-> "none", message |-> "",
      pdf_bytes |-> None, status_code |-> 0, detail |-> "", body |-> None,
      passes |-> 0, endpoint |-> "generate", job |-> None ]

\* the job of a GenerateRequest: none, an empty dict, a dict with a company
JobDict == { <<"company", <<"C">>>> }

Jobs == {None, Some(EmptyDict), Some(JobDict)}

\* POST /api/generate and POST /api/generate/preview, with each job
RequestKinds ==
    { [endpoint |-> e, job |-> j] : e \in {"generate", "preview"}, j \in Jobs }

\* request.job.get(key, default)
JobGet(job, key, default) ==
    IF \E e \in job : e[1] = key
    THEN (CHOOSE e \in job : e[1] = key)[2] ELSE default

\* application_service.create_application: the table after the INSERT
create_application(apps, user_id, company, resume_config) ==
    apps \cup { [ id |-> Cardinality(apps) + 1, user_id |-> user_id,
                  company |-> company, resume_config |-> resume_config ] }

job_application_on_failure(r, apps) ==
    IF r.endpoint = "generate" /\ r.job /= None /\ The(r.job) /= {}
    THEN create_application(apps, r.user_id,
                            JobGet(The(r.job), "company", <<"Unknown">>),
                            r.resume_config)
    ELSE apps

\* the routers after the call of the service: generate_resume creates the
\* application when no exception was raised and request.job is truthy,
\* generate_preview creates none
job_application(r, apps) ==
    IF r.endpoint = "generate" /\ r.error = "none"
       /\ r.job /= None /\ The(r.job) /= {}
    THEN create_application(apps, r.user_id,
                            JobGet(The(r.job), "company", <<"Unknown">>),
                            r.resume_config)
    ELSE apps

after_pass_check_returncode(returncodes, out) ==
    IF Len(returncodes) = 1 \/ out.returncode /= 0 THEN "check" ELSE "compile"

\* for _ in range(2): the loop goes on after a run that returned, whatever
\* its return code
after_pass(returncodes, out) ==
    IF Len(returncodes) = 1 THEN "check" ELSE "compile"

\* an exception leaves the try block: control goes to the finally clause
Raise(r, cause, error, message) ==
    [r EXCEPT !.pc = "finally", !.cause = cause, !.error = error,
              !.message = message]

\* the files found under a path, none when no directory is there
DirFiles(fsv, d) == IF fsv[d] = None THEN NoFiles ELSE The(fsv[d]).files

\* the file system after a request wrote its build directory
PutFiles(fsv, d, p, files) ==
    [fsv EXCEPT ![d] = Some(Dir(IF @ = None THEN p ELSE The(@).owner, files))]

storeVars ==
    <<sections, nextId, now, response, history, txn, section_configs, scan>>

InitBuild ==
    /\ sections \in BuildStores
    /\ nextId = ReadClock
    /\ now = ReadClock
    /\ response = Response("none", "u1", <<>>, 0, {}, <<>>, None)
    /\ history = [c \in Chains |-> NoHistory]
    /\ txn = NoTxn
    /\ fs = NoDirs
    /\ req = [p \in {"t1"} |-> NewRequest]
    /\ section_configs = {}
    /\ applications = {}
    /\ scan = NoScan

\* router generate_resume up to tempfile.mkdtemp of the service
GenerateResume(p, configs, kinds) ==
    /\ req[p].pc = "start"
    /\ \E resume_config \in configs, kind \in kinds, d \in mkdtemp(fs) :
          /\ fs' = [fs EXCEPT ![d] = Some(Dir(p, NoFiles))]
          /\ req' = [req EXCEPT ![p] =
                        [@ EXCEPT !.pc = "copy",
                                  !.resume_config = Some(resume_config),
                                  !.endpoint = kind.endpoint,
                                  !.job = kind.job,
                                  !.build_dir = Some(d)]]
    /\ UNCHANGED <<storeVars, applications>>

\* the two shutil.copy calls; either can raise
CopyTemplates(p) ==
    /\ req[p].pc = "copy"
    /\ \E copied \in {{}, {"resume.tex"}, TopFiles} :
          LET d == The(req[p].build_dir)
          IN  /\ fs' = PutFiles(fs, d, p, CopyFiles(DirFiles(fs, d), copied))
              /\ req' = [req EXCEPT ![p] =
                            IF copied = TopFiles
                            THEN [@ EXCEPT !.pc = "copytree"]
                            ELSE Raise(@, "stage", "OSError", "copy")]
    /\ UNCHANGED <<storeVars, applications>>

\* shutil.copytree of templates/src; it can raise after a part of the copy
CopyTree(p) ==
    /\ req[p].pc = "copytree"
    /\ \E copied \in {{"src/experience.tex"}, SrcFiles} :
          LET d == The(req[p].build_dir)
          IN  /\ fs' = PutFiles(fs, d, p, CopyFiles(DirFiles(fs, d), copied))
              /\ req' = [req EXCEPT ![p] =
                            IF copied = SrcFiles
                            THEN [@ EXCEPT !.pc = "content"]
                            ELSE Raise(@, "stage", "OSError", "copytree")]
    /\ UNCHANGED <<storeVars, applications>>

\* build_resume_content; a failing query raises
BuildResumeContent(p) ==
    /\ req[p].pc = "content"
    /\ \/ \E content \in build_resume_content(sections, req[p].user_id,
                                             The(req[p].resume_config)) :
             req' = [req EXCEPT ![p] = [@ EXCEPT !.pc = "write",
                                                !.content = Some(content)]]
       \/ req' = [req EXCEPT ![p] = Raise(@, "resolve", "SQLAlchemyError", "query")]
    /\ UNCHANGED <<fs, storeVars, applications>>

\* generate_latex_files; a failing write raises
GenerateLatexFiles(p) ==
    /\ req[p].pc = "write"
    /\ LET d == The(req[p].build_dir)
       IN  \/ /\ fs' = PutFiles(fs, d, p,
                               generate_latex_files(The(req[p].content),
                                                    DirFiles(fs, d)))
              /\ req' = [req EXCEPT ![p] = [@ EXCEPT !.pc = "compile"]]
           \/ /\ fs' = fs
              /\ req' = [req EXCEPT ![p] = Raise(@, "write", "OSError", "write")]
    /\ UNCHANGED <<storeVars, applications>>

\* one subprocess.run of the loop of compile_pdf
CompilePass(p, outcomes) ==
    /\ req[p].pc = "compile"
    /\ \E out \in outcomes :
          LET d == The(req[p].build_dir)
          IN  IF out.kind = "timeout"
              THEN /\ fs' = fs
                   /\ req' = [req EXCEPT ![p] =
                                 Raise([@ EXCEPT !.passes = @ + 1],
                                       "timeout", "TimeoutExpired",
                                       "timed out after 60 seconds")]
              ELSE IF out.kind = "oserror"
              THEN /\ fs' = fs
                   /\ req' = [req EXCEPT ![p] =
                                 Raise([@ EXCEPT !.passes = @ + 1],
                                       "oserror", "OSError", "pdflatex")]
              ELSE /\ fs' = PutFiles(fs, d, p, pdflatex(DirFiles(fs, d), out))
                   /\ req' = [req EXCEPT ![p] =
                                 [@ EXCEPT !.returncodes =
                                               Append(@, out.returncode),
                                           !.passes = @ + 1,
                                           !.pc = after_pass(req[p].returncodes,
                                                             out)]]
    /\ UNCHANGED <<storeVars, applications>>

\* compile_pdf after the loop: os.path.exists(pdf_path)
CheckArtifact(p) ==
    /\ req[p].pc = "check"
    /\ LET res == compile_pdf(DirFiles(fs, The(req[p].build_dir)),
                              req[p].returncodes)
       IN  req' = [req EXCEPT ![p] =
                      [@ EXCEPT !.pc = "finally",
                                !.cause = IF res.error = "none" THEN "none"
                                          ELSE "absent",
                                !.error = res.error,
                                !.message = res.message,
                                !.pdf_bytes = res.pdf_bytes]]
    /\ UNCHANGED <<fs, storeVars, applications>>

\* the finally clause of generator_service.generate_resume
Cleanup(p) ==
    /\ req[p].pc = "finally"
    /\ fs' = finally_rmtree(fs, The(req[p].build_dir), req[p].error)
    /\ req' = [req EXCEPT ![p] = [@ EXCEPT !.pc = "respond"]]
    /\ UNCHANGED <<storeVars, applications>>

\* the routers after the call of the service: the PDF and the application
\* record, or the HTTPException made of the text of whatever exception was
\* raised
Respond(p) ==
    /\ req[p].pc = "respond"
    /\ applications' = job_application(req[p], applications)
    /\ req' = [req EXCEPT ![p] =
                  IF req[p].error /= "none"
                  THEN [@ EXCEPT !.pc = "done",
                                 !.status_code = 500,
                                 !.detail = req[p].message]
                  ELSE [@ EXCEPT !.pc = "done", !.status_code = 200,
                                 !.body = req[p].pdf_bytes]]
    /\ UNCHANGED <<fs, storeVars>>

\* the steps of one request
GenerateStep(p, configs, outcomes, kinds) ==
    \/ GenerateResume(p, configs, kinds) \/ CopyTemplates(p) \/ CopyTree(p)
    \/ BuildResumeContent(p) \/ GenerateLatexFiles(p)
    \/ CompilePass(p, outcomes)
    \/ CheckArtifact(p) \/ Cleanup(p) \/ Respond(p)

NextBuild == GenerateStep("t1", BuildConfigs, PassOutcomes, RequestKinds)

SpecBuild == InitBuild /\ [][NextBuild]_vars

\* ------------------------------------- two generate requests at a time
\* the requests of the concurrent runs: one with fragments to write, one
\* without; a run of pdflatex that times out, one that writes the PDF, one
\* that leaves a log and no PDF
ConcConfigs ==
    { ResumeConfig(None, None, None, None, None, None, None),
      ResumeConfig(Some(RefKF), None, Some(<<RefKF>>), None, Some(RefKF),
                   Some(RefKF), None) }

ConcOutcomes ==
    { Pass("timeout", 0, FALSE, "none"),
      Pass("exit", 0, TRUE, "clean"),
      Pass("exit", 1, FALSE, "errors") }

InitBuildConc ==
    /\ sections = BuildStore(HeadingDict, ValueDict)
    /\ nextId = ReadClock
    /\ now = ReadClock
    /\ response = Response("none", "u1", <<>>, 0, {}, <<>>, None)
    /\ history = [c \in Chains |-> NoHistory]
    /\ txn = NoTxn
    /\ fs = NoDirs
    /\ req = [p \in Procs |-> NewRequest]
    /\ section_configs = {}
    /\ applications = {}
    /\ scan = NoScan

\* the concurrent requests are generate requests with a job
ConcKinds == { [endpoint |-> "generate", job |-> Some(JobDict)] }

NextBuildConc ==
    \E p \in Procs : GenerateStep(p, ConcConfigs, ConcOutcomes, ConcKinds)

SpecBuildConc == InitBuildConc /\ [][NextBuildConc]_vars

\* ---------------------------------------------------- the text functions
\* the characters of the texts: a letter, the asterisk of the mini-markup
\* and control characters of the destination markup
Chars == {"a", "*", "\\", "&", "{"}

Texts == SeqsUpTo(Chars, MaxLen)

\* the list `replacements` of escape_latex, in its order
replacements ==
    << <<"\\", <<"\\", "t", "e", "x", "t", "b", "a", "c", "k", "s", "l", "a", "s", "h", "{", "}">>>>,
       <<"&", <<"\\", "&">>>>,
       <<"%", <<"\\", "%">>>>,
       <<"$", <<"\\", "$">>>>,
       <<"#", <<"\\", "#">>>>,
       <<"_", <<"\\", "_">>>>,
       <<"{", <<"\\", "{">>>>,
       <<"}", <<"\\", "}">>>>,
       <<"~", <<"\\", "t", "e", "x", "t", "a", "s", "c", "i", "i", "t", "i", "l", "d", "e", "{", "}">>>>,
       <<"^", <<"\\", "t", "e", "x", "t", "a", "s", "c", "i", "i", "c", "i", "r", "c", "u", "m", "{", "}">>>> >>

\* str.replace(old, new) for a one-character old
RECURSIVE replace(_, _, _)
replace(text, old, new) ==
    IF text = <<>> THEN <<>>
    ELSE (IF Head(text) = old THEN new ELSE <<Head(text)>>)
         \o replace(Tail(text), old, new)

\* the loop `for old, new in replacements: text = text.replace(old, new)`
RECURSIVE replace_all(_, _)
replace_all(text, reps) ==
    IF reps = <<>> THEN text
    ELSE replace_all(replace(text, Head(reps)[1], Head(reps)[2]), Tail(reps))

\* escape_latex of a string
escape_latex(text) ==
    IF text = <<>> THEN <<>> ELSE replace_all(text, replacements)

\* text[a:b] with Python's 0-based bounds
Slice(text, a, b) ==
    SubSeq(text, a + 1, IF b < Len(text) THEN b ELSE Len(text))

\* str.find(sub, start): the first 0-based index at or after start where
\* sub begins, -1 when there is none
find(text, sub, start) ==
    LET hits == { k \in start..(Len(text) - Len(sub)) :
                    Slice(text, k, k + Len(sub)) = sub }
    IN  IF hits = {} THEN -1
        ELSE CHOOSE k \in hits : \A h \in hits : k <= h

textbf(inner) == <<"\\", "t", "e", "x", "t", "b", "f", "{">> \o inner \o <<"}">>

textit(inner) == <<"\\", "t", "e", "x", "t", "i", "t", "{">> \o inner \o <<"}">>

\* the state of a call: the function, its argument, for process_bullet the
\* index i of the scan, the number of loop iterations so far and whether
\* the loop is running, and the text produced so far
Scan(op, text, i, iters, pc, result) ==
    [ op |-> op, text |-> text, i |-> i, iters |-> iters, pc |-> pc,
      result |-> result ]

\* a call of generate_skills_tex before it ran
SkillsCall(skills) ==
    [ op |-> "generate_skills_tex", text |-> <<>>, i |-> 0, iters |-> 0,
      pc |-> "call", result |-> <<>>, skills |-> skills, rows |-> <<>> ]

\* iterations after which a call of process_bullet is no longer followed
MaxIters == MaxLen + 2

\* the `while i < len(text)` test
loop_test(text, i) == IF i < Len(text) THEN "loop" ELSE "done"

\* one iteration of the while loop of process_bullet
process_bullet_iteration(st) ==
    LET text == st.text
        i == st.i
        bold == IF Slice(text, i, i + 2) = <<"*", "*">>
                THEN find(text, <<"*", "*">>, i + 2) ELSE -1
        italic == IF text[i + 1] = "*" THEN find(text, <<"*">>, i + 1) ELSE -1
        next_star == find(text, <<"*">>, i)
    IN  IF bold /= -1
        THEN [st EXCEPT !.result = @ \o textbf(escape_latex(Slice(text, i + 2, bold))),
                        !.i = bold + 2, !.iters = @ + 1,
                        !.pc = loop_test(text, bold + 2)]
        ELSE IF italic /= -1
        THEN [st EXCEPT !.result = @ \o textit(escape_latex(Slice(text, i + 1, italic))),
                        !.i = italic + 1, !.iters = @ + 1,
                        !.pc = loop_test(text, italic + 1)]
        ELSE IF next_star = -1
        THEN [st EXCEPT !.result = @ \o escape_latex(Slice(text, i, Len(text))),
                        !.iters = @ + 1, !.pc = "done"]
        ELSE [st EXCEPT !.result = @ \o escape_latex(Slice(text, i, next_star)),
                        !.i = next_star, !.iters = @ + 1,
                        !.pc = loop_test(text, next_star)]

\* ------------------------------------------------- the skills fragment
\* A skills payload is a dict in its insertion order: a sequence of
\* <<key, value>> with distinct keys; a value is a list of items or a dict.
ListValue(items) == [kind |-> "list", items |-> items, dict |-> <<>>]

DictValue(dict) == [kind |-> "dict", items |-> <<>>, dict |-> dict]

KeySkills == <<"s", "k", "i", "l", "l", "s">>
KeyTags == <<"t", "a", "g", "s">>

\* skip_keys of generate_skills_tex
skip_keys == {<<"t", "a", "g", "s">>, <<"t", "y", "p", "e">>, <<"k", "e", "y">>, <<"f", "l", "a", "v", "o", "r">>, <<"v", "e", "r", "s", "i", "o", "n">>}

\* 'skills' in skills and isinstance(skills['skills'], dict)
unwrap(skills) ==
    LET inner == { k \in 1..Len(skills) :
                     skills[k][1] = KeySkills /\ skills[k][2].kind = "dict" }
    IN  IF inner = {} THEN skills
        ELSE skills[CHOOSE k \in inner : TRUE][2].dict

\* ", ".join(str(item) for item in items)
RECURSIVE join(_)
join(items) ==
    IF items = <<>> THEN <<>>
    ELSE IF Len(items) = 1 THEN Head(items)
    ELSE Head(items) \o <<",", " ">> \o join(Tail(items))

\* the row of one category: its escaped name and its escaped items
skills_row(entry) ==
    << escape_latex(entry[1]), escape_latex(join(entry[2].items) \o <<".">>) >>

\* no category is skipped
skipped_never(category) == FALSE

\* if category in skip_keys: continue
skipped(category) == category \in skip_keys

\* the loop over skills.items()
RECURSIVE skills_rows(_)
skills_rows(skills) ==
    IF skills = <<>> THEN <<>>
    ELSE (IF skipped(Head(skills)[1]) THEN <<>>
          ELSE <<skills_row(Head(skills))>>)
         \o skills_rows(Tail(skills))

\* generate_skills_tex: the rows between \begin{tabular} and \end{tabular}
generate_skills_tex(skills) == skills_rows(unwrap(skills))

\* the categories of the payloads: two skill categories, one of them with
\* no item, and the tag list
SkillEntries ==
    { <<<<"L">>, ListValue(<< <<"c">>, <<"g", "o">> >>)>>,
      <<<<"L">>, ListValue(<<>>)>>,
      <<<<"T">>, ListValue(<< <<"x">> >>)>>,
      <<KeyTags, ListValue(<< <<"x">> >>)>> }

\* dicts of up to MaxItems categories
FlatSkills ==
    { d \in SeqsUpTo(SkillEntries, MaxItems) :
        \A j \in 1..Len(d) : \A k \in 1..Len(d) : d[j][1] = d[k][1] => j = k }

\* the payloads: flat, wrapped under "skills", wrapped next to a tag list
SkillsPayloads ==
    FlatSkills
    \cup { << <<KeySkills, DictValue(d)>> >> : d \in FlatSkills }
    \cup { << <<KeySkills, DictValue(d)>>, <<KeyTags, ListValue(<< <<"x">> >>)>> >> :
           d \in FlatSkills }

\* the frame of the text functions
noText ==
    <<sections, nextId, now, response, history, txn, fs, req,
      section_configs, applications>>

InitText ==
    /\ sections = {}
    /\ nextId = 1
    /\ now = 1
    /\ response = Response("none", "u1", <<>>, 0, {}, <<>>, None)
    /\ history = [c \in Chains |-> NoHistory]
    /\ txn = NoTxn
    /\ fs = NoDirs
    /\ req = NoRequests
    /\ section_configs = {}
    /\ applications = {}
    /\ scan \in { Scan(op, text, 0, 0, "call", <<>>) :
                     op \in {"escape_latex", "process_bullet"}, text \in Texts }
                 \cup { SkillsCall(skills) : skills \in SkillsPayloads }

\* a call of escape_latex
EscapeLatex ==
    /\ scan.op = "escape_latex"
    /\ scan.pc = "call"
    /\ scan' = [scan EXCEPT !.pc = "done", !.result = escape_latex(scan.text)]
    /\ UNCHANGED noText

\* a call of process_bullet up to its loop
ProcessBullet ==
    /\ scan.op = "process_bullet"
    /\ scan.pc = "call"
    /\ scan' = [scan EXCEPT !.pc = loop_test(scan.text, 0)]
    /\ UNCHANGED noText

\* the next iteration of the loop
ProcessBulletIteration ==
    /\ scan.op = "process_bullet"
    /\ scan.pc = "loop"
    /\ scan.iters < MaxIters
    /\ scan' = process_bullet_iteration(scan)
    /\ UNCHANGED noText

\* a call of generate_skills_tex
GenerateSkillsTex ==
    /\ scan.op = "generate_skills_tex"
    /\ scan.pc = "call"
    /\ scan' = [scan EXCEPT !.pc = "done",
                            !.rows = generate_skills_tex(scan.skills)]
    /\ UNCHANGED noText

NextText ==
    EscapeLatex \/ ProcessBullet \/ ProcessBulletIteration \/ GenerateSkillsTex

SpecText == InitText /\ [][NextText]_vars

\* ----------------------------------------------------------------- claims

\* C1: after any sequence of completed put, update and deleteVersion
\* requests executed one at a time, every chain has at most one block whose
\* current flag is set.
C1_AtMostOneCurrent ==
    \A c \in Chains : Cardinality(CurrentRows(sections, c)) <= 1

\* a chain that holds a superseded block next to its current one
C1_Witness ==
    \E c \in Chains :
        /\ Cardinality(ChainRows(sections, c)) >= 2
        /\ Cardinality(CurrentRows(sections, c)) = 1
        /\ response.op = "update" /\ response.status = 200
        /\ response.chain = c

\* C3: deleteVersion of the current block of a chain that has another block
\* leaves exactly one current block, the most recently created of the
\* remaining ones; deleteVersion of the only block leaves the chain empty.
C3_DeleteCurrentPromotesLatest ==
    (response.op = "deleteVersion" /\ response.status = 204
        /\ The(response.rows).is_current)
    => LET rest == ChainRows(sections, response.chain)
           cur == CurrentRows(sections, response.chain)
       IN  /\ The(response.rows) \notin rest
           /\ rest /= {} =>
                  /\ Cardinality(cur) = 1
                  /\ \A r \in rest : r.created_at <= The(cur).created_at
                  /\ \A r \in rest : r.created_at = The(cur).created_at
                                        => r = The(cur)
           /\ rest = {} => cur = {}

\* the current block of a chain of three was deleted
C3_Witness ==
    /\ response.op = "deleteVersion" /\ response.status = 204
    /\ The(response.rows).is_current
    /\ Cardinality(ChainRows(sections, response.chain)) = 2

\* C5: update on a chain that has no current block (a chain with no block
\* included) answers NotFound, creates no block and changes no flag.
C5_UpdateWithoutCurrentIsNotFound ==
    [][ (response'.op = "update"
            /\ CurrentRows(sections, response'.chain) = {})
        => (response'.status = 404 /\ sections' = sections) ]_vars

\* an update was refused while other chains hold blocks
C5_Witness ==
    /\ response.op = "update" /\ response.status = 404
    /\ sections /= {}
    /\ ChainRows(sections, response.chain) = {}

\* C6: put for a chain that has a current block answers AlreadyExists and
\* changes no block; put for a chain without a current block creates
\* exactly one block, with version "1.0" and the current flag set.
C6_PutExistsOrCreates ==
    [][ response'.op = "put" =>
          IF CurrentRows(sections, response'.chain) /= {}
          THEN response'.status = 400 /\ sections' = sections
          ELSE /\ response'.status = 201
               /\ \E r \in sections' :
                     /\ sections' = sections \cup {r}
                     /\ \A q \in sections : q.id /= r.id
                     /\ ChainOf(r) = response'.chain
                     /\ r.version = <<"1", ".", "0">>
                     /\ r.is_current = TRUE ]_vars

\* a put was refused on a chain that holds two blocks
C6_Witness ==
    /\ response.op = "put" /\ response.status = 400
    /\ Cardinality(ChainRows(sections, response.chain)) >= 2

\* the attributes of a block that identify it and its payload
Frozen(r) == <<r.user_id, r.type, r.key, r.flavor, r.version, r.content,
               r.created_at>>

\* C7 (as stated): blocks are never mutated in place, and the only
\* attribute an operation changes on an existing block is its current flag.
C7_OnlyFlagChanges ==
    [][ \A r \in sections : \A q \in sections' :
            r.id = q.id => q = [r EXCEPT !.is_current = q.is_current] ]_vars

\* C7 (amended): payload, version label, chain address and creation time of
\* a block stay what they were at its creation until the block is deleted;
\* the only attributes an operation changes on an existing block are its
\* current flag and its update timestamp.
C7_NeverMutatedInPlace ==
    [][ \A r \in sections : \A q \in sections' :
            r.id = q.id =>
                /\ Frozen(q) = Frozen(r)
                /\ q = [r EXCEPT !.is_current = q.is_current,
                                 !.updated_at = q.updated_at] ]_vars

\* a block that was superseded by an update and later promoted again
C7_Witness ==
    \E r \in sections :
        /\ r.is_current /\ r.updated_at > r.created_at
        /\ response.op = "deleteVersion"

\* C8: every newly created block gets a label whose minor number is greater
\* than that of every block created earlier in its chain, deleted ones
\* included.
C8_LabelsNeverReissued ==
    [][ \A q \in sections' :
            (\A r \in sections : r.id /= q.id)
            => Minor(q.version) > history[ChainOf(q)].maxMinor ]_vars

\* C4: on a chain created by put, the k-th successful update with no delete
\* in between creates the block labelled "1.k": the major part stays "1",
\* the minor part is k written in decimal, and the update after "1.9"
\* yields "1.10".
C4_KthUpdateIsOneDotK ==
    (response.op = "update" /\ response.status = 200
        /\ history[response.chain].updates >= 1)
    => LET k == history[response.chain].updates
           parts == split(The(response.rows).version, ".")
       IN  /\ Len(parts) = 2
           /\ parts[1] = <<"1">>
           /\ IsInt(parts[2]) /\ int(parts[2]) = k
           /\ Len(parts[2]) = (IF k < 10 THEN 1 ELSE 2)
           /\ k = 10 => The(response.rows).version = <<"1", ".", "1", "0">>

\* the tenth update in a row has just been answered
C4_Witness ==
    /\ response.op = "update" /\ response.status = 200
    /\ history[response.chain].updates = 10
    /\ The(response.rows).version = <<"1", ".", "1", "0">>

\* C2: under every interleaving of two concurrent updates of one chain, once
\* both have finished the chain has at most one current block, and the two
\* updates have not both left their version marked current.
C2_ConcurrentUpdatesOneCurrent ==
    (\A p \in DOMAIN txn : txn[p].pc = "done")
    => /\ Cardinality(CurrentRows(sections, ConcChain)) <= 1
       /\ \A p \in DOMAIN txn : \A q \in DOMAIN txn :
              (p /= q /\ txn[p].status = 200 /\ txn[q].status = 200)
              => ~ \E r1 \in sections : \E r2 \in sections :
                       /\ r1.id = txn[p].new /\ r2.id = txn[q].new
                       /\ r1.is_current /\ r2.is_current

\* both updates read the same current block before either committed
C2_Witness ==
    /\ DOMAIN txn = Procs
    /\ \A p \in Procs : txn[p].pc = "done"
    /\ txn["t1"].read /= None
    /\ txn["t1"].read = txn["t2"].read
    /\ Cardinality(CurrentRows(sections, ConcChain)) = 1

\* every payload of a Composed Document
DocPayloads(doc) ==
    {doc.experiences[i] : i \in 1..Len(doc.experiences)}
    \cup {doc.projects[i] : i \in 1..Len(doc.projects)}
    \cup doc.location \cup doc.email \cup doc.skills \cup doc.heading
    \cup doc.education

\* C9: a request of owner A leaves the blocks of every other owner and
\* their current flags as they were, and its result holds no block and no
\* payload of another owner, also when both owners use the same category,
\* identifier, variant and version.
C9_OwnerScoped ==
    [][ response'.op /= "none" =>
          LET A == response'.user_id
          IN  /\ {r \in sections' : r.user_id /= A}
                     = {r \in sections : r.user_id /= A}
              /\ \A r \in response'.rows : r.user_id = A
              /\ \A i \in 1..Len(response'.ordered) :
                     response'.ordered[i].user_id = A
              /\ \A doc \in response'.content : \A payload \in DocPayloads(doc) :
                     /\ \E r \in sections : r.user_id = A /\ r.content = payload
                     /\ \A r \in sections : r.user_id /= A => r.content /= payload
      ]_vars

\* u2 resolved the address at which u1 also holds a block
C9_Witness ==
    /\ response.op = "resolve" /\ response.user_id = "u2"
    /\ \E doc \in response.content : doc.experiences = <<OtherDict, OtherDict>>
    /\ \E r \in sections : \E q \in sections :
           /\ r.user_id = "u1" /\ q.user_id = "u2"
           /\ <<r.type, r.key, r.flavor, r.version>>
                  = <<q.type, q.key, q.flavor, q.version>>

\* the blocks a reference of the given slot stands for: getVersion for three
\* segments, getCurrent for two, the current blocks of the identifier for one
RefBlocks(db, user_id, type, ref) ==
    LET parts == split(ref, ":")
    IN  CASE Len(parts) = 3 ->
               get_section_by_version(db, user_id, type, parts[1], parts[2],
                                      parts[3])
          [] Len(parts) = 2 ->
               get_current_section(db, user_id, type, parts[1], parts[2])
          [] Len(parts) = 1 ->
               {r \in db : r.user_id = user_id /\ r.type = type
                           /\ r.key = parts[1] /\ r.is_current}
          [] OTHER -> {}

\* the payload lists that keep, in request order, one payload for every
\* reference that stands for a block
RECURSIVE ResolvedPayloads(_, _, _, _)
ResolvedPayloads(db, user_id, type, refs) ==
    IF refs = <<>> THEN {<<>>}
    ELSE LET blocks == RefBlocks(db, user_id, type, Head(refs))
             rests == ResolvedPayloads(db, user_id, type, Tail(refs))
         IN  IF blocks = {} THEN rests
             ELSE { <<r.content>> \o rest : r \in blocks, rest \in rests }

EmptyDocument ==
    [ location |-> None, email |-> None, experiences |-> <<>>,
      projects |-> <<>>, skills |-> None, heading |-> None,
      education |-> None ]

\* C10: for experiences and projects, resolve returns in request order
\* exactly the payloads of the references that resolve to an existing block
\* and omits the others without raising; a request with no reference, or
\* with none that resolves, yields the empty Composed Document.
C10_ListsKeepResolvedRefs ==
    response.op = "resolve" =>
        LET cfg == The(response.request)
            doc == The(response.content)
            u == response.user_id
            slots == { <<"location", cfg.location>>, <<"email", cfg.email>>,
                       <<"skills", cfg.skills>>, <<"heading", cfg.heading>>,
                       <<"education", cfg.education>> }
        IN  /\ response.status = 200
            /\ doc.experiences \in ResolvedPayloads(sections, u, "experience",
                                                    GetList(cfg.experiences))
            /\ doc.projects \in ResolvedPayloads(sections, u, "project",
                                                 GetList(cfg.projects))
            /\ ( /\ \A i \in 1..Len(GetList(cfg.experiences)) :
                       RefBlocks(sections, u, "experience",
                                 GetList(cfg.experiences)[i]) = {}
                 /\ \A i \in 1..Len(GetList(cfg.projects)) :
                       RefBlocks(sections, u, "project",
                                 GetList(cfg.projects)[i]) = {}
                 /\ \A sl \in slots : \A ref \in sl[2] :
                       RefBlocks(sections, u, sl[1], ref) = {} )
               => doc = EmptyDocument

\* what the references of the requests say, segment by segment
RefSegments(ref) ==
    CASE ref = <<"a", ":", "s", ":", "1", ".", "0">> ->
           [n |-> 3, key |-> <<"a">>, flavor |-> <<"s">>,
            version |-> <<"1", ".", "0">>]
      [] ref = <<"a", ":", "s">> ->
           [n |-> 2, key |-> <<"a">>, flavor |-> <<"s">>, version |-> <<>>]
      [] ref = <<"a">> ->
           [n |-> 1, key |-> <<"a">>, flavor |-> <<>>, version |-> <<>>]
      [] ref = <<"b">> ->
           [n |-> 1, key |-> <<"b">>, flavor |-> <<>>, version |-> <<>>]
      [] OTHER -> [n |-> 0, key |-> <<>>, flavor |-> <<>>, version |-> <<>>]

C12_ResolveRepeatable ==
    [][ (response.op = "resolve" /\ response'.op = "resolve"
            /\ response'.user_id = response.user_id
            /\ response'.request = response.request
            /\ sections' = sections)
        => response'.content = response.content ]_vars

\* C20: when the AI tag call of a put or an update fails (inside
\* generate_section_tags or by an exception out of it), the request has the
\* effect on the store it has without the call: a put on a chain without a
\* current block and an update on a chain with one create a current block
\* at the same version, whose payload is the payload sent with an empty tag
\* list; the other requests fail as they do without the call.
C20_AiFailureKeepsMutation ==
    [][ (/\ response'.op \in {"put", "update"}
         /\ The(response'.request).api_key /= None
         /\ The(response'.request).ai \in {"caught", "raise"})
        => LET rq == The(response'.request)
               c == response'.chain
               cur == CurrentRows(sections, c)
               added == {r \in sections' : \A q \in sections : q.id /= r.id}
           IN  IF (response'.op = "put") = (cur = {})
               THEN /\ response'.status = (IF response'.op = "put" THEN 201 ELSE 200)
                    /\ response'.rows = added
                    /\ \E r \in added :
                          /\ added = {r}
                          /\ ChainOf(r) = c
                          /\ r.is_current
                          /\ r.content = DictSet(rq.payload, "tags", <<>>)
                          /\ IF response'.op = "put" THEN r.version = V10
                             ELSE \A old \in cur :
                                    /\ split(r.version, ".")[1]
                                         = split(old.version, ".")[1]
                                    /\ Minor(r.version) = Minor(old.version) + 1
               ELSE /\ response'.status = (IF response'.op = "put" THEN 400 ELSE 404)
                    /\ sections' = sections ]_vars

\* an update whose AI call raised created version 1.1 with an empty tag list
C20_Witness ==
    /\ response.op = "update"
    /\ response.status = 200
    /\ response.request /= None
    /\ The(response.request).api_key /= None
    /\ The(response.request).ai = "raise"
    /\ \E r \in response.rows :
          /\ r \in sections
          /\ r.is_current
          /\ r.version = <<"1", ".", "1">>
          /\ <<"tags", <<>>>> \in r.content

\* C18: no config request leaves a stored config with priority "always"
\* whose fixed_flavor is absent or the empty string, and an upsert with
\* priority "always" and no fixed_flavor is answered 400 and leaves the
\* table of configs, the existing config of its address included, as it was.
C18_AlwaysNeedsFixedFlavor ==
    [][ /\ \A r \in section_configs' :
              r.priority = "always"
              => (r.fixed_flavor /= None /\ The(r.fixed_flavor) /= <<>>)
        /\ (/\ response'.op = "upsertConfig"
            /\ The(response'.request).priority = "always"
            /\ The(response'.request).fixed_flavor \in {None, Some(<<>>)})
           => (response'.status = 400 /\ section_configs' = section_configs)
      ]_vars

\* an upsert with priority "always" and no fixed_flavor was rejected at an
\* address that holds a config, which is still stored
C18_Witness ==
    /\ response.op = "upsertConfig"
    /\ response.status = 400
    /\ The(response.request).priority = "always"
    /\ The(response.request).fixed_flavor = None
    /\ \E r \in section_configs :
          /\ <<r.user_id, r.section_type, r.section_key>> = response.chain
          /\ r.priority = "never"

\* C19: a bulk creation reports every item of its list in exactly one of
\* the success and failed lists, and every item that can be stored and whose
\* chain has no current block when its turn comes is created, whatever
\* happened to the items before it.
C19_BulkItemsIndependent ==
    [][ response'.op = "bulk"
        => LET items == The(response'.request)
               InSuccess(j) == \E e \in 1..Len(response'.success) :
                                  response'.success[e].index = j
               InFailed(j) == \E e \in 1..Len(response'.failed) :
                                 response'.failed[e].index = j
               ChainAt(j) == <<response'.user_id, items[j].type, items[j].key,
                               items[j].flavor>>
           IN  /\ Len(response'.success) + Len(response'.failed) = Len(items)
               /\ \A j \in 1..Len(items) : InSuccess(j) /= InFailed(j)
               /\ \A j \in 1..Len(items) :
                     (/\ CurrentRows(sections, ChainAt(j)) = {}
                      /\ \A k \in 1..(j - 1) :
                            ChainAt(k) = ChainAt(j) => ~InSuccess(k)
                      /\ Len(items[j].key) <= KeyColumnLength
                      /\ Len(items[j].flavor) <= FlavorColumnLength)
                     => (/\ InSuccess(j)
                         /\ \E r \in CurrentRows(sections', ChainAt(j)) :
                               r.version = V10) ]_vars

\* C13: once generator_service.generate_resume has returned or raised, the
\* scratch directory the request created no longer exists, whichever way
\* the request ended: with the PDF, without the artifact, by a timeout, by
\* an exception while staging, resolving or writing.
C13_ScratchDirRemoved ==
    \A p \in DOMAIN req :
        req[p].pc \in {"respond", "done"}
        => /\ req[p].build_dir /= None
           /\ \A d \in DirNames : fs[d] /= None => The(fs[d]).owner /= p

\* a request whose compiler pass timed out has returned and no scratch
\* directory is left
C13_Witness ==
    \E p \in DOMAIN req :
        /\ req[p].pc = "done"
        /\ req[p].cause = "timeout"
        /\ req[p].build_dir /= None
        /\ \A d \in DirNames : fs[d] = None

\* C14: a request whose compiler pass timed out ends with an error and no
\* PDF bytes, and the kind of error the caller gets (the status code of the
\* HTTPException; its detail is the text of the exception) differs from the
\* kind a request gets that ended because the artifact was absent.
C14_TimeoutKindDistinct ==
    \A p \in DOMAIN req :
        (req[p].pc = "done" /\ req[p].cause = "timeout")
        => /\ req[p].pdf_bytes = None
           /\ req[p].body = None
           /\ req[p].status_code /= 200
           /\ \A q \in DOMAIN req :
                 (req[q].pc = "done" /\ req[q].cause = "absent")
                 => req[q].status_code /= req[p].status_code

\* C15: when both passes have run to their exit, compile_pdf returns the
\* bytes of resume.pdf exactly when that file is in the build directory,
\* whatever the two return codes were, and raises without bytes otherwise.
C15_ArtifactDecides ==
    \A p \in DOMAIN req :
        (req[p].pc = "finally" /\ Len(req[p].returncodes) = 2)
        => IF "resume.pdf" \in DOMAIN DirFiles(fs, The(req[p].build_dir))
           THEN req[p].pdf_bytes /= None /\ req[p].error = "none"
           ELSE req[p].pdf_bytes = None /\ req[p].error = "Exception"

\* both passes exited with return code 1, resume.pdf exists and its bytes
\* are returned
C15_Witness ==
    \E p \in DOMAIN req :
        /\ req[p].pc = "finally"
        /\ req[p].returncodes = <<1, 1>>
        /\ "resume.pdf" \in DOMAIN DirFiles(fs, The(req[p].build_dir))
        /\ req[p].pdf_bytes /= None

\* the build directory of a request right after generate_latex_files
Written(p) ==
    /\ req[p].pc = "compile"
    /\ req[p].returncodes = <<>>

Overwritten(p, path) ==
    DirFiles(fs, The(req[p].build_dir))[path].by = "generate_latex_files"

\* the experience, projects and skills files are overwritten exactly when
\* the document has a non-empty list or payload for them, and the files
\* that are no fragment are those of the skeleton
ListFragmentsWritten(p) ==
    LET content == The(req[p].content)
        files == DirFiles(fs, The(req[p].build_dir))
    IN  /\ DOMAIN files = DOMAIN Skeleton
        /\ Overwritten(p, "src/experience.tex") <=> content.experiences /= <<>>
        /\ Overwritten(p, "src/projects.tex") <=> content.projects /= <<>>
        /\ Overwritten(p, "src/skills.tex")
             <=> (content.skills /= None /\ The(content.skills) /= {})
        /\ \A path \in DOMAIN Skeleton :
              ~Overwritten(p, path) => files[path] = Skeleton[path]
        /\ \A path \in TopFiles \cup {"src/education.tex"} :
              ~Overwritten(p, path)

\* C16 as stated: after the fragments are written the heading file is
\* overwritten exactly when the document has a heading payload, a location
\* payload with a value or an email payload with a value.
C16_HeadingWrittenWhenPresent ==
    \A p \in DOMAIN req :
        Written(p)
        => LET content == The(req[p].content)
           IN  /\ ListFragmentsWritten(p)
               /\ Overwritten(p, "src/heading.tex")
                    <=> \/ content.heading /= None
                        \/ \E d \in content.location : \E q \in d : q[1] = "value"
                        \/ \E d \in content.email : \E q \in d : q[1] = "value"

\* C16: after the fragments are written the heading file is overwritten
\* exactly when the heading payload is non-empty or the location or email
\* payload has a non-empty value; the other fragments are overwritten
\* exactly when their content is non-empty and every other file is the
\* skeleton's.
C16_FragmentsWritten ==
    \A p \in DOMAIN req :
        Written(p)
        => LET content == The(req[p].content)
           IN  /\ ListFragmentsWritten(p)
               /\ Overwritten(p, "src/heading.tex")
                    <=> \/ \E d \in content.heading : d /= {}
                        \/ \E d \in content.location :
                              \E q \in d : q[1] = "value" /\ q[2] /= <<>>
                        \/ \E d \in content.email :
                              \E q \in d : q[1] = "value" /\ q[2] /= <<>>

\* the heading slot resolved to an empty payload and the heading file is
\* still the skeleton's
C16_Witness ==
    \E p \in DOMAIN req :
        /\ Written(p)
        /\ The(req[p].content).heading = Some({})
        /\ DirFiles(fs, The(req[p].build_dir))["src/heading.tex"]
             = Skeleton["src/heading.tex"]

\* a request between mkdtemp and the end of its finally clause
Active(r) == r.pc \notin {"start", "respond", "done"}

\* C17: two requests in flight never have the same scratch directory, and
\* every step that creates, changes or removes a scratch directory is a
\* step of the request that created it.
C17_OwnScratchDir ==
    [][ /\ \A p \in DOMAIN req : \A q \in DOMAIN req :
              (p /= q /\ Active(req'[p]) /\ Active(req'[q]))
              => req'[p].build_dir /= req'[q].build_dir
        /\ \A d \in DirNames :
              fs'[d] /= fs[d]
              => \E p \in DOMAIN req :
                    /\ req'[p] /= req[p]
                    /\ \A q \in DOMAIN req : q /= p => req'[q] = req[q]
                    /\ req'[p].build_dir = Some(d)
                    /\ fs[d] /= None => The(fs[d]).owner = p
                    /\ fs'[d] /= None => The(fs'[d]).owner = p ]_vars

\* both requests are compiling, each in a directory it created
C17_Witness ==
    /\ \A p \in DOMAIN req : req[p].pc = "compile"
    /\ \E p \in DOMAIN req : \E q \in DOMAIN req :
          /\ p /= q
          /\ req[p].build_dir /= req[q].build_dir
          /\ The(fs[The(req[p].build_dir)]).owner = p
          /\ The(fs[The(req[q].build_dir)]).owner = q

\* the escape sequence of one character, every other character is its own
Image(ch) ==
    CASE ch = "\\" -> <<"\\", "t", "e", "x", "t", "b", "a", "c", "k", "s", "l", "a", "s", "h", "{", "}">>
      [] ch = "&" -> <<"\\", "&">>
      [] ch = "%" -> <<"\\", "%">>
      [] ch = "$" -> <<"\\", "$">>
      [] ch = "#" -> <<"\\", "#">>
      [] ch = "_" -> <<"\\", "_">>
      [] ch = "{" -> <<"\\", "{">>
      [] ch = "}" -> <<"\\", "}">>
      [] ch = "~" -> <<"\\", "t", "e", "x", "t", "a", "s", "c", "i", "i", "t", "i", "l", "d", "e", "{", "}">>
      [] ch = "^" -> <<"\\", "t", "e", "x", "t", "a", "s", "c", "i", "i", "c", "i", "r", "c", "u", "m", "{", "}">>
      [] OTHER -> <<ch>>

RECURSIVE Images(_)
Images(text) ==
    IF text = <<>> THEN <<>> ELSE Image(Head(text)) \o Images(Tail(text))

\* C21: the text escape_latex returns is the concatenation of the escape
\* sequences of the characters of its argument.
C21_EscapePerCharacter ==
    (scan.op = "escape_latex" /\ scan.pc = "done")
    => scan.result = Images(scan.text)

\* the asterisks of the text are one marker, "*" or "**", so that the
\* marker has no closing marker after it
DanglingMarker(text) ==
    LET stars == {k \in 1..Len(text) : text[k] = "*"}
    IN  \E k \in stars : stars = {k} \/ stars = {k, k + 1}

\* C22: when the only asterisks of a text are one opening marker,
\* process_bullet returns the text escaped as plain text, the asterisks
\* standing where they stood, and no \textbf or \textit command.
C22_DanglingMarkerIsLiteral ==
    (scan.op = "process_bullet" /\ scan.pc = "done"
     /\ DanglingMarker(scan.text))
    => scan.result = escape_latex(scan.text)

\* C27: every iteration of the loop of process_bullet ends the scan or
\* moves its index forward, so the scan ends after at most len(text)
\* iterations.
C27_EveryIterationAdvances ==
    [][ (scan.op = "process_bullet" /\ scan.pc = "loop")
        => (scan'.pc = "done" \/ scan'.i > scan.i) ]_vars

\* the row expected for each category of the payloads
ExpectedRow(entry) ==
    CASE entry = <<<<"L">>, ListValue(<< <<"c">>, <<"g", "o">> >>)>> ->
           << <<"L">>, <<"c", ",", " ", "g", "o", ".">> >>
      [] entry = <<<<"L">>, ListValue(<<>>)>> -> << <<"L">>, <<".">> >>
      [] entry = <<<<"T">>, ListValue(<< <<"x">> >>)>> ->
           << <<"T">>, <<"x", ".">> >>

NotReserved(entry) ==
    entry[1] \notin {<<"t", "a", "g", "s">>, <<"t", "y", "p", "e">>, <<"k", "e", "y">>, <<"f", "l", "a", "v", "o", "r">>, <<"v", "e", "r", "s", "i", "o", "n">>}

\* the categories of a payload, taken from under its "skills" key when the
\* payload is wrapped
Categories(skills) ==
    IF \E k \in 1..Len(skills) : skills[k][1] = <<"s", "k", "i", "l", "l", "s">>
    THEN LET k == CHOOSE j \in 1..Len(skills) : skills[j][1] = <<"s", "k", "i", "l", "l", "s">>
         IN  SelectSeq(skills[k][2].dict, NotReserved)
    ELSE SelectSeq(skills, NotReserved)

\* C23: the rows of the skills fragment are the rows of the non-reserved
\* categories of the payload, one each, in the order of the payload, the
\* items joined by ", " and closed by a period.
C23_SkillsRows ==
    (scan.op = "generate_skills_tex" /\ scan.pc = "done")
    => LET cats == Categories(scan.skills)
       IN  /\ Len(scan.rows) = Len(cats)
           /\ \A j \in 1..Len(cats) : scan.rows[j] = ExpectedRow(cats[j])

\* a wrapped payload with two categories and a tag list gave two rows
C23_Witness ==
    /\ scan.op = "generate_skills_tex"
    /\ scan.pc = "done"
    /\ scan.skills = << <<<<"s", "k", "i", "l", "l", "s">>,
                          DictValue(<< <<<<"T">>, ListValue(<< <<"x">> >>)>>,
                                       <<<<"t", "a", "g", "s">>, ListValue(<< <<"x">> >>)>> >>)>>,
                        <<<<"t", "a", "g", "s">>, ListValue(<< <<"x">> >>)>> >>
    /\ scan.rows = << << <<"T">>, <<"x", ".">> >> >>

\* C24: when an update and a deleteVersion of the current block of the same
\* chain run at the same time, each in a transaction of its own, the chain
\* has at most one current block once both have finished.
C24_UpdateDeleteOneCurrent ==
    (/\ \A p \in DOMAIN txn : txn[p].pc = "done"
     /\ DOMAIN txn = Procs
     /\ txn["t2"].read /= None
     /\ The(txn["t2"].read).is_current)
    => Cardinality(CurrentRows(sections, ConcChain)) <= 1

\* the update read the current block, the deleteVersion deleted that block
\* and made the block before it current, and the update then failed
C24_Witness ==
    /\ DOMAIN txn = Procs
    /\ \A p \in Procs : txn[p].pc = "done"
    /\ txn["t1"].read /= None
    /\ txn["t1"].read = txn["t2"].read
    /\ txn["t2"].status = 204
    /\ txn["t2"].latest /= None
    /\ txn["t1"].status = 500
    /\ Cardinality(CurrentRows(sections, ConcChain)) = 1

\* C26: when two puts of the same empty chain run at the same time, at most
\* one succeeds, and once both have finished the chain has exactly one
\* block, with the label 1.0 and marked current.
C26_ConcurrentPutsOneBlock ==
    (/\ DOMAIN txn = Procs
     /\ \A p \in Procs : txn[p].pc = "done" /\ txn[p].status \in {201, 400, 500})
    => /\ Cardinality({p \in Procs : txn[p].status = 201}) <= 1
       /\ \E r \in sections :
              /\ get_section_versions(sections, ConcChain[1], ConcChain[2],
                                      ConcChain[3], ConcChain[4]) = {r}
              /\ r.version = V10
              /\ r.is_current

\* both puts found the chain empty; one was committed, the other failed
C26_Witness ==
    /\ DOMAIN txn = Procs
    /\ \A p \in Procs : txn[p].pc = "done"
    /\ txn["t1"].status = 201
    /\ txn["t2"].status = 500
    /\ Cardinality(sections) = 1

\* C25: after any run of put, update and deleteVersion requests executed one
\* at a time, every chain that has a block has exactly one current block,
\* no block of the chain was created after it and no block of the chain
\* has a higher version label.
C25_CurrentIsNewestAndHighest ==
    \A c \in StoreChains :
        LET rows == ChainRows(sections, c)
        IN  rows /= {}
            => \E r \in rows :
                   /\ CurrentRows(sections, c) = {r}
                   /\ \A q \in rows \ {r} :
                          /\ q.created_at < r.created_at
                          /\ Minor(q.version) < Minor(r.version)

\* the newest of three blocks was deleted and the second one is current
C25_Witness ==
    /\ response.op = "deleteVersion"
    /\ response.status = 204
    /\ The(response.rows).is_current
    /\ Cardinality(ChainRows(sections, response.chain)) = 2
    /\ \E r \in CurrentRows(sections, response.chain) : Minor(r.version) = 1

\* the Compiled stage of request p is over and the compiler was invoked
Compiled(p) ==
    /\ req[p].passes >= 1
    /\ req[p].pc \in {"check", "finally", "respond", "done"}

\* C28 as stated: a request whose Compiled stage is over has invoked the
\* compiler exactly twice, both runs having returned before the artifact is
\* looked for, unless a run timed out, which was then the last run.
C28_TwoPassesUnlessTimeout ==
    \A p \in DOMAIN req :
        Compiled(p)
        => IF req[p].cause = "timeout"
           THEN req[p].passes <= 2 /\ Len(req[p].returncodes) = req[p].passes - 1
           ELSE req[p].passes = 2 /\ Len(req[p].returncodes) = 2

\* C28: a request whose Compiled stage is over has invoked the compiler
\* exactly twice, both runs having returned, whatever their return codes,
\* before the artifact is looked for, unless a run timed out or could not
\* be started, which was then the last run.
C28_TwoPassesUnlessRaised ==
    \A p \in DOMAIN req :
        Compiled(p)
        => IF req[p].cause \in {"timeout", "oserror"}
           THEN req[p].passes <= 2 /\ Len(req[p].returncodes) = req[p].passes - 1
           ELSE req[p].passes = 2 /\ Len(req[p].returncodes) = 2

\* the first run exited with 1, the second run was made and the artifact is
\* about to be looked for
C28_Witness ==
    \E p \in DOMAIN req :
        /\ req[p].pc = "check"
        /\ req[p].passes = 2
        /\ req[p].returncodes[1] = 1

\* C29: the compiler is invoked only on a scratch directory that holds the
\* whole skeleton and in which every fragment of the document is written; a
\* fragment is written only into a complete copy of the skeleton, before
\* any run of the compiler; once the scratch directory was removed it does
\* not exist again and no step of the request touches it.
C29_StageOrder ==
    [][ \A p \in DOMAIN req :
          req[p].build_dir /= None
          => LET d == The(req[p].build_dir)
                 before == DirFiles(fs, d)
                 after == DirFiles(fs', d)
             IN  /\ req'[p].passes > req[p].passes
                    => /\ DOMAIN Skeleton \subseteq DOMAIN before
                       /\ req[p].content /= None
                       /\ generate_latex_files(The(req[p].content), before)
                            = before
                 /\ (\E f \in DOMAIN after :
                        /\ after[f].by = "generate_latex_files"
                        /\ (f \notin DOMAIN before \/ before[f] /= after[f]))
                    => /\ DOMAIN before = DOMAIN Skeleton
                       /\ req[p].passes = 0
                 /\ req[p].pc \in {"respond", "done"}
                    => fs[d] = None /\ fs'[d] = None ]_vars

\* a request went through every stage: the experience fragment was written,
\* the compiler ran twice, the PDF was returned, the directory is gone
C29_Witness ==
    \E p \in DOMAIN req :
        /\ req[p].pc = "done"
        /\ req[p].status_code = 200
        /\ req[p].passes = 2
        /\ The(req[p].content).experiences /= <<>>
        /\ fs[The(req[p].build_dir)] = None

\* C30: no application record exists before the request is answered; once
\* it is answered there is a record exactly when the request was a generate
\* request with a non-empty job whose PDF was compiled and returned, and
\* the record is the owner's and carries the request's resume_config.
C30_ApplicationAfterSuccess ==
    \A p \in DOMAIN req :
        /\ req[p].pc /= "done" => applications = {}
        /\ req[p].pc = "done"
           => (applications /= {}
               <=> /\ req[p].endpoint = "generate"
                   /\ req[p].status_code = 200
                   /\ req[p].pdf_bytes /= None
                   /\ req[p].job /= None /\ The(req[p].job) /= {})
        /\ \A a \in applications :
               /\ a.user_id = req[p].user_id
               /\ a.resume_config = req[p].resume_config

\* a generate request with a job was answered with the PDF and one record
C30_Witness ==
    \E p \in DOMAIN req :
        /\ req[p].pc = "done"
        /\ req[p].endpoint = "generate"
        /\ req[p].status_code = 200
        /\ req[p].job = Some(JobDict)
        /\ \E a \in applications : applications = {a} /\ a.company = <<"C">>

====
